---- MODULE Spec2Model ----
(***************************************************************************)
(* A model of the Streamable HTTP transport of mcpgopher                   *)
(* (package transport, type StreamableHTTP): the session token, the        *)
(* closed signal, SendRequest with its single-JSON and event-stream reply  *)
(* paths, the background stream task of handleSSEResponse/readSSE, the     *)
(* notification handler, and Close.                                        *)
(*                                                                         *)
(* Every caller is a process.  A call is a sequence of steps, one per      *)
(* access to shared state or suspension point of the Go code; the server   *)
(* and the network are the environment and choose every reply.             *)
(***************************************************************************)
EXTENDS Integers, Sequences, FiniteSets, TLC

(***************************************************************************)
(* Bounds of the model.                                                    *)
(***************************************************************************)
\* number of callers (goroutines that call the client)
NumProcs == 3
\* longest event stream a server sends in one reply
MaxStream == 2

\* the readings of the clock: time.Now() is read as one of 1..MaxClock
MaxClock == 2

Procs == 1..NumProcs
Clock == 1..MaxClock

(***************************************************************************)
(* Program constants.                                                      *)
(***************************************************************************)
StatusOK == 200
StatusAccepted == 202
StatusNotFound == 404
StatusInternalServerError == 500
initializeMethod == "initialize"
pingMethod == "ping"
otherMethod == "tools/list"

\* the nil identifier of a decoded envelope (JSONRPCResponse.ID == nil)
NullID == 0
\* session tokens a server may issue; "" is the empty token
Tokens == {"A", "B"}
NoToken == ""
\* notification handlers a caller may register; "" is the nil handler
Handlers == {"h1"}
NoHandler == ""

(***************************************************************************)
(* Wire values.  A body or an event's data is JSON text; what matters of   *)
(* it is whether it parses as an object and which members it has.          *)
(***************************************************************************)
Garbage == [ok |-> FALSE, id |-> NullID, result |-> "", error |-> "", method |-> "", params |-> ""]

JSONResponse(id, result, error) ==
    [ok |-> TRUE, id |-> id, result |-> result, error |-> error, method |-> "", params |-> ""]

JSONNotification(method, params) ==
    [ok |-> TRUE, id |-> NullID, result |-> "", error |-> "", method |-> method, params |-> params]

\* mutant: the id member is not decoded
UnmarshalResponseNoID(j) ==
    [err |-> ~j.ok, ID |-> NullID, Result |-> j.result, Error |-> j.error]

\* json.Unmarshal(data, &JSONRPCResponse{}): members id, result, error
UnmarshalResponse(j) ==
    [err |-> ~j.ok, ID |-> j.id, Result |-> j.result, Error |-> j.error]

\* a params member that is JSON, and is not an object: by-position params
ArrayParams == "[1]"

\* JSONRPCNotification.UnmarshalJSON: members method and params; params
\* that are present are decoded as an object, or the decoding fails
UnmarshalNotification(j) ==
    [err |-> ~j.ok \/ j.params = ArrayParams, Method |-> j.method, Params |-> j.params]

\* a JSONRPCRequest as built by a caller; Params may be a value that
\* json.Marshal cannot encode
JSONRPCRequest(id, method, params) == [ID |-> id, Method |-> method, Params |-> params]
NoRequest == JSONRPCRequest(NullID, "", "")
Unserializable == "chan"

\* a *JSONRPCResponse: <<>> is nil, <<r>> points to r
NilResponse == <<>>
ResponsePtr(m) == << [ID |-> m.ID, Result |-> m.Result, Error |-> m.Error] >>

\* the (response, error) pair a call returns; err "" is the nil error.  An
\* error message may embed a status code (0: none) and a raw payload
\* (<<>>: none)
Return(resp, err) == [resp |-> resp, err |-> err, status |-> 0, raw |-> <<>>]

\* (nil, fmt.Errorf(...)) with the status code and the payload the message
\* is formatted with
Failure(err, status, raw) ==
    [resp |-> NilResponse, err |-> err, status |-> status, raw |-> raw]
NoReturn == Return(NilResponse, "pending")
ReturnNil == Return(NilResponse, "")

ErrCanceled == "context canceled"
ErrMarshal == "failed to marshal request"
ErrSend == "failed to send request: connection refused"
ErrSendCanceled == "failed to send request: context canceled"
ErrReinit == "session terminated (404). need to re-initialize"
ErrStatus == "request failed with status"
ErrDecode == "failed to decode response"
ErrNoID == "response should contain RPC id"
ErrContentType == "unexpected content type"
ErrNilResponse == "unexpected nil response"
ErrMarshalNotification == "failed to marshal notification"
ErrNotificationStatus == "notification failed with status"

\* an *http.Response: status, Mcp-Session-Id header ("" when absent),
\* media type, body, and for an event stream its events and how it ends
HTTPResponse(status, sid, ctype, body, events, end) ==
    [status |-> status, sid |-> sid, ctype |-> ctype, body |-> body,
     events |-> events, end |-> end]
NoResponse == HTTPResponse(0, "", "", Garbage, <<>>, "eof")

VARIABLES
    sessionID,            \* c.sessionID (atomic.Value holding a string)
    closed,               \* c.closed is closed
    panicked,             \* a goroutine panicked (close of a closed channel)
    deleteNotices,        \* session tokens of the DELETE notices issued by Close
    notificationHandler,  \* c.notificationHandler
    pc,                   \* per caller: its position
    op,                   \* per caller: the operation it runs or ran last
    request,              \* per caller: the request of its SendRequest
    ctxDone,              \* per caller: newCtx of its SendRequest is cancelled
    loaded,               \* per caller: the local sessionID (the token loaded)
    response,             \* per caller: the HTTP reply its exchange received
    result,               \* per caller: what its call returned
    alone,                \* per caller: no other call ran during its call
    observed,             \* per caller: the token its CompareAndSwap found
    rpc,                  \* per caller: position of its background stream task
    stream,               \* per caller: events not yet read from the reply body
    responseChan,         \* per caller: the single-slot completion channel
    chanClosed,           \* per caller: responseChan is closed
    dispatched,           \* per caller: the notifications its exchange dispatched
    bodyCloses,           \* per caller: the calls of Close() on the body of its reply
    br,                   \* readSSE: what the buffered reader has still to deliver
    event,                \* readSSE: the event accumulator
    data,                 \* readSSE: the data accumulator
    emitted,              \* readSSE: the calls of handler(event, data), in order
    sseLoop,              \* readSSE: its position, or the branch it returned by
    sseCtxDone,           \* readSSE: its ctx is done
    headers,              \* c.headers: the static headers given at construction
    posted,               \* per caller: the headers of the HTTP requests that its
                          \*             call has passed to httpClient.Do so far
    noticeDone,           \* outcomes of the DELETE notices whose goroutine has ended
    notifyMu,             \* c.notifyMu: the goroutines that hold the read lock, the
                          \*             one that holds the write lock, those in Lock()
    spc,                  \* per goroutine: its position in SetNotificationHandler
    held                  \* per stream task: the handler registered when it took
                          \*                  the read lock

vars == <<sessionID, closed, panicked, deleteNotices, notificationHandler, pc, op,
          request, ctxDone, loaded, response, result, alone, observed, rpc,
          stream, responseChan, chanClosed, dispatched, bodyCloses,
          br, event, data, emitted, sseLoop, sseCtxDone, headers, posted,
          noticeDone, notifyMu, spc, held>>

shared == <<sessionID, closed, panicked, deleteNotices, notificationHandler>>
task == <<rpc, stream, responseChan, chanClosed, dispatched>>
decoder == <<br, event, data, emitted, sseLoop, sseCtxDone>>
http == <<headers, posted, noticeDone>>
lock == <<notifyMu, spc, held>>
sse == <<task, bodyCloses, decoder, http, lock>>

\* a line of the stream without its final newline: a known field prefix or
\* none, and the characters after it
Line(prefix, rest) == [prefix |-> prefix, rest |-> rest]

\* the reader of a reply body: the lines it delivers, each ended by a
\* newline, the index of the line that ReadString returns next, the
\* characters after the last newline, and the error ReadString returns
\* with them
Reader(lines, partial, err) ==
    [lines |-> lines, next |-> 1, partial |-> partial, err |-> err]
NoReader == Reader(<<>>, <<>>, "EOF")

\* a map of headers without entries
NoHeaders == [k \in {} |-> ""]

\* NewStreamableHTTP: the empty token is stored, the closed channel is open,
\* and the options have set the static headers
NewStreamableHTTP(options) ==
    /\ sessionID = NoToken
    /\ closed = FALSE
    /\ panicked = FALSE
    /\ deleteNotices = <<>>
    /\ notificationHandler = NoHandler
    /\ pc = [p \in Procs |-> "idle"]
    /\ op = [p \in Procs |-> "none"]
    /\ request = [p \in Procs |-> NoRequest]
    /\ ctxDone = [p \in Procs |-> FALSE]
    /\ loaded = [p \in Procs |-> NoToken]
    /\ response = [p \in Procs |-> NoResponse]
    /\ result = [p \in Procs |-> NoReturn]
    /\ alone = [p \in Procs |-> FALSE]
    /\ observed = [p \in Procs |-> NoToken]
    /\ rpc = [p \in Procs |-> "none"]
    /\ stream = [p \in Procs |-> <<>>]
    /\ responseChan = [p \in Procs |-> <<>>]
    /\ chanClosed = [p \in Procs |-> FALSE]
    /\ dispatched = [p \in Procs |-> <<>>]
    /\ bodyCloses = [p \in Procs |-> 0]
    /\ br = NoReader
    /\ event = <<>>
    /\ data = <<>>
    /\ emitted = <<>>
    /\ sseLoop = "none"
    /\ sseCtxDone = FALSE
    /\ headers = options
    /\ posted = [p \in Procs |-> <<>>]
    /\ noticeDone = <<>>
    /\ notifyMu = [readers |-> {}, writer |-> 0, pending |-> {}]
    /\ spc = [p \in Procs |-> [at |-> "none", handler |-> ""]]
    /\ held = [p \in Procs |-> NoHandler]

\* the client constructed without options
Init == NewStreamableHTTP(NoHeaders)

\* GetSessionId: the atomic load of the token
GetSessionId == sessionID

\* a caller is between calls, and the stream task of its last call is gone
Idle(p) == pc[p] \in {"idle", "done"} /\ rpc[p] \in {"none", "exit"}

\* the bookkeeping of a call's start: the caller p is alone if every other
\* caller is between calls, and no other caller is alone any more
Begin(p, name) ==
    /\ Idle(p)
    /\ ~panicked
    /\ op' = [op EXCEPT ![p] = name]
    /\ alone' = [q \in Procs |-> q = p /\ \A o \in Procs \ {p} : Idle(o)]
    /\ response' = [response EXCEPT ![p] = NoResponse]
    /\ observed' = [observed EXCEPT ![p] = NoToken]
    /\ rpc' = [rpc EXCEPT ![p] = "none"]
    /\ stream' = [stream EXCEPT ![p] = <<>>]
    /\ responseChan' = [responseChan EXCEPT ![p] = <<>>]
    /\ chanClosed' = [chanClosed EXCEPT ![p] = FALSE]
    /\ dispatched' = [dispatched EXCEPT ![p] = <<>>]
    /\ bodyCloses' = [bodyCloses EXCEPT ![p] = 0]
    /\ posted' = [posted EXCEPT ![p] = <<>>]
    /\ UNCHANGED <<decoder, headers, noticeDone, lock>>

\* lines 214, 345 and 423: a deferred Close() of the body of the reply runs
BodyClose(p) == bodyCloses' = [bodyCloses EXCEPT ![p] = @ + 1]

\* a call returns; the deferred cancel of SendRequest cancels its context
Returns(p, r) ==
    /\ pc' = [pc EXCEPT ![p] = "done"]
    /\ result' = [result EXCEPT ![p] = r]
    /\ ctxDone' = [ctxDone EXCEPT ![p] = TRUE]

(***************************************************************************)
(* SendRequest                                                             *)
(***************************************************************************)
\* errors.Is(err, context.Canceled)
IsCanceled(err) == err \in {ErrCanceled, ErrSendCanceled}

\* line 217: the reply is an error reply
IsErrorStatus(status) == status # StatusOK /\ status # StatusAccepted

\* mutant: the token is stored without comparing
StoreUnconditionally(current, old, new) == new

\* line 220: c.sessionID.CompareAndSwap(sessionID, ""), the token afterwards
CompareAndSwap(current, old, new) == IF current = old THEN new ELSE current

\* mutant: the session header is stored for every method
StoreSessionHeaderAnyMethod(current, method, sid) ==
    IF sid # "" THEN sid ELSE current

\* lines 233-239: the token after the reply headers of a successful exchange
StoreSessionHeader(current, method, sid) ==
    IF method = initializeMethod /\ sid # "" THEN sid ELSE current

\* mutant: 404 is handled like any other error status
ErrorStatusReturnNo404(status, body) ==
    IF ~UnmarshalResponse(body).err
    THEN Return(ResponsePtr(UnmarshalResponse(body)), "")
    ELSE Failure(ErrStatus, status, <<body>>)

\* lines 219-230: what SendRequest returns on an error status
ErrorStatusReturn(status, body) ==
    IF status = StatusNotFound
    THEN Return(NilResponse, ErrReinit)
    ELSE IF ~UnmarshalResponse(body).err
         THEN Return(ResponsePtr(UnmarshalResponse(body)), "")
         ELSE Failure(ErrStatus, status, <<body>>)

\* mutant: a response that carries an error object is turned into an error
SingleJSONReturnErrorAsFault(method, body) ==
    LET m == UnmarshalResponse(body) IN
    IF m.err THEN Failure(ErrDecode, 0, <<body>>)
    ELSE IF m.ID = NullID /\ method # pingMethod THEN Failure(ErrNoID, 0, <<body>>)
    ELSE IF m.Error # "" THEN Failure(m.Error, 0, <<body>>)
    ELSE Return(ResponsePtr(m), "")

\* mutant: a response with a null id is accepted for every method
SingleJSONReturnAnyID(method, body) ==
    LET m == UnmarshalResponse(body) IN
    IF m.err THEN Failure(ErrDecode, 0, <<body>>)
    ELSE Return(ResponsePtr(m), "")

\* lines 244-263: what SendRequest returns for an application/json body
SingleJSONReturn(method, body) ==
    LET m == UnmarshalResponse(body) IN
    IF m.err THEN Failure(ErrDecode, 0, <<body>>)
    ELSE IF m.ID = NullID /\ method # pingMethod THEN Failure(ErrNoID, 0, <<body>>)
    ELSE Return(ResponsePtr(m), "")

\* textproto.CanonicalMIMEHeaderKey, which http.Header.Set applies to the
\* name: the first letter and every letter after a hyphen in upper case
CanonicalMIMEHeaderKey(k) ==
    CASE k = "mcp-session-id" -> "Mcp-Session-Id"
      [] k = "x-api-key" -> "X-Api-Key"
      [] OTHER -> k

\* req.Header.Set(k, v): the value of the canonical name is replaced
Set(h, k, v) ==
    LET name == CanonicalMIMEHeaderKey(k)
    IN  [x \in DOMAIN h \cup {name} |-> IF x = name THEN v ELSE h[x]]

\* lines 205-207 and 414-416: for k, v := range c.headers
RECURSIVE SetAll(_, _)
SetAll(h, static) ==
    IF DOMAIN static = {} THEN h
    ELSE LET k == CHOOSE x \in DOMAIN static : TRUE
         IN  SetAll(Set(h, k, static[k]), [x \in DOMAIN static \ {k} |-> static[x]])

\* mutant: the static headers are set first, the session header after them
SetHeadersSessionLast(token, static) ==
    LET fixed == Set(Set(NoHeaders, "Content-Type", "application/json"),
                     "Accept", "application/json, text/event-stream")
        all == SetAll(fixed, static)
    IN  IF token # NoToken THEN Set(all, "Mcp-Session-Id", token) ELSE all

\* lines 198-207 and 408-416: the headers of the request: the two fixed
\* ones, the session header if the token loaded is not empty, and then
\* the static headers
SetHeaders(token, static) ==
    LET fixed == Set(Set(NoHeaders, "Content-Type", "application/json"),
                     "Accept", "application/json, text/event-stream")
        session == IF token # NoToken THEN Set(fixed, "Mcp-Session-Id", token) ELSE fixed
    IN  SetAll(session, static)

\* lines 210 and 419: the request, built with the headers above, is passed
\* to httpClient.Do, which issues one HTTP exchange
Post(p) == posted' = [posted EXCEPT ![p] = Append(@, SetHeaders(loaded[p], headers))]

\* mutant: the Content-Type header is compared as it is
ParseMediaTypeVerbatim(v) == v

\* line 242: mime.ParseMediaType(v) with its error dropped: the media type in
\* lower case, without the parameters; empty for a header that is missing
ParseMediaType(v) ==
    CASE v = "application/json; charset=utf-8" -> "application/json"
      [] v = "Text/Event-Stream" -> "text/event-stream"
      [] OTHER -> v

\* io.ReadAll(resp.Body) with its error dropped: the body read under a
\* cancelled context may be cut short, and then it does not parse
ReadAll(done, body) == IF done THEN {body, Garbage} ELSE {body}

\* lines 164-207: the call starts with a context that is cancelled or not;
\* the request is marshalled, the combined context is derived, the token is
\* loaded and the headers are set
SendRequest(p, req, cancelled) ==
    /\ Begin(p, "SendRequest")
    /\ request' = [request EXCEPT ![p] = req]
    /\ IF req.Params = Unserializable
       THEN /\ Returns(p, Return(NilResponse, ErrMarshal))
            /\ loaded' = [loaded EXCEPT ![p] = NoToken]
       ELSE /\ loaded' = [loaded EXCEPT ![p] = sessionID]
            /\ pc' = [pc EXCEPT ![p] = "do"]
            /\ result' = [result EXCEPT ![p] = NoReturn]
            /\ ctxDone' = [ctxDone EXCEPT ![p] = cancelled]
    /\ UNCHANGED shared

\* mutant: the transport has one connection: a request is sent when no
\* other call is waiting for its reply
DoSerialized(p) ==
    /\ op[p] = "SendRequest"
    /\ pc[p] = "do"
    /\ \A q \in Procs \ {p} : pc[q] \notin {"roundtrip", "waitSSE"}
    /\ IF ctxDone[p]
       THEN /\ Returns(p, Return(NilResponse, ErrSendCanceled))
            /\ UNCHANGED posted
       ELSE /\ pc' = [pc EXCEPT ![p] = "roundtrip"]
            /\ Post(p)
            /\ UNCHANGED <<result, ctxDone>>
    /\ UNCHANGED <<shared, op, request, loaded, response, alone, observed, task,
                   bodyCloses, decoder, headers, noticeDone, lock>>

\* mutant: the request is sent without looking at the context
DoUnconditionally(p) ==
    /\ op[p] = "SendRequest"
    /\ pc[p] = "do"
    /\ pc' = [pc EXCEPT ![p] = "roundtrip"]
    /\ Post(p)
    /\ UNCHANGED <<shared, op, request, ctxDone, loaded, response, result, alone,
                   observed, task, bodyCloses, decoder, headers, noticeDone, lock>>

\* line 210: c.httpClient.Do(req) fails at once when the context of the
\* request is done, and sends the request otherwise
Do(p) ==
    /\ op[p] = "SendRequest"
    /\ pc[p] = "do"
    /\ IF ctxDone[p]
       THEN /\ Returns(p, Return(NilResponse, ErrSendCanceled))
            /\ UNCHANGED posted
       ELSE /\ pc' = [pc EXCEPT ![p] = "roundtrip"]
            /\ Post(p)
            /\ UNCHANGED <<result, ctxDone>>
    /\ UNCHANGED <<shared, op, request, loaded, response, alone, observed, task,
                   bodyCloses, decoder, headers, noticeDone, lock>>

\* mutant: the goroutine ends when c.closed is closed, without cancel()
WatchWithoutCancel(p) ==
    /\ op[p] = "SendRequest"
    /\ pc[p] \in {"do", "roundtrip", "waitSSE"}
    /\ closed
    /\ ~ctxDone[p]
    /\ UNCHANGED vars

\* lines 176-183: the goroutine that cancels newCtx when c.closed is closed
Watch(p) ==
    /\ op[p] = "SendRequest"
    /\ pc[p] \in {"do", "roundtrip", "waitSSE"}
    /\ closed
    /\ ~ctxDone[p]
    /\ ctxDone' = [ctxDone EXCEPT ![p] = TRUE]
    /\ UNCHANGED <<shared, pc, op, request, loaded, response, result, alone, observed, sse>>

\* line 174: the caller cancels the context it passed
CallerCancel(p) ==
    /\ op[p] = "SendRequest"
    /\ pc[p] \in {"do", "roundtrip", "waitSSE"}
    /\ ~ctxDone[p]
    /\ ctxDone' = [ctxDone EXCEPT ![p] = TRUE]
    /\ UNCHANGED <<shared, pc, op, request, loaded, response, result, alone, observed, sse>>

\* mutant: a request that failed for the network is sent again
RoundTripFailsRetries(p) ==
    /\ op[p] = "SendRequest"
    /\ pc[p] = "roundtrip"
    /\ pc' = [pc EXCEPT ![p] = "do"]
    /\ UNCHANGED <<shared, op, request, ctxDone, loaded, response, result, alone,
                   observed, sse>>

\* lines 210-213: Do fails for the network
RoundTripFails(p) ==
    /\ op[p] = "SendRequest"
    /\ pc[p] = "roundtrip"
    /\ Returns(p, Return(NilResponse, ErrSend))
    /\ UNCHANGED <<shared, op, request, loaded, response, alone, observed, sse>>

\* lines 210-213: Do fails for the cancelled context
RoundTripCanceled(p) ==
    /\ op[p] = "SendRequest"
    /\ pc[p] = "roundtrip"
    /\ ctxDone[p]
    /\ Returns(p, Return(NilResponse, ErrSendCanceled))
    /\ UNCHANGED <<shared, op, request, loaded, response, alone, observed, sse>>

\* lines 216-231: Do returned resp with an error status
ErrorReply(p, resp) ==
    /\ op[p] = "SendRequest"
    /\ pc[p] = "roundtrip"
    /\ IsErrorStatus(resp.status)
    /\ response' = [response EXCEPT ![p] = resp]
    /\ sessionID' = IF resp.status = StatusNotFound
                    THEN CompareAndSwap(sessionID, loaded[p], NoToken)
                    ELSE sessionID
    /\ observed' = [observed EXCEPT ![p] =
           IF resp.status = StatusNotFound THEN sessionID ELSE NoToken]
    /\ \E body \in ReadAll(ctxDone[p], resp.body) :
           Returns(p, ErrorStatusReturn(resp.status, body))
    /\ BodyClose(p)
    /\ UNCHANGED <<closed, panicked, deleteNotices, notificationHandler, op, request,
                   loaded, alone, task, decoder, http, lock>>

\* lines 233-263 and 269-271: Do returned resp with a success status and a
\* media type other than text/event-stream
DirectReply(p, resp) ==
    /\ op[p] = "SendRequest"
    /\ pc[p] = "roundtrip"
    /\ ~IsErrorStatus(resp.status)
    /\ ParseMediaType(resp.ctype) # "text/event-stream"
    /\ response' = [response EXCEPT ![p] = resp]
    /\ sessionID' = StoreSessionHeader(sessionID, request[p].Method, resp.sid)
    /\ IF ParseMediaType(resp.ctype) = "application/json"
       THEN \E body \in ReadAll(ctxDone[p], resp.body) :
                Returns(p, SingleJSONReturn(request[p].Method, body))
       ELSE Returns(p, Return(NilResponse, ErrContentType))
    /\ BodyClose(p)
    /\ UNCHANGED <<closed, panicked, deleteNotices, notificationHandler, op, request,
                   loaded, alone, observed, task, decoder, http, lock>>

(***************************************************************************)
(* handleSSEResponse and readSSE                                           *)
(***************************************************************************)
\* lines 233-239, 265-267 and 288-328: Do returned resp with a success status
\* and the media type text/event-stream; handleSSEResponse makes the
\* completion channel and starts the background stream task
StreamReply(p, resp) ==
    /\ op[p] = "SendRequest"
    /\ pc[p] = "roundtrip"
    /\ ~IsErrorStatus(resp.status)
    /\ ParseMediaType(resp.ctype) = "text/event-stream"
    /\ response' = [response EXCEPT ![p] = resp]
    /\ sessionID' = StoreSessionHeader(sessionID, request[p].Method, resp.sid)
    /\ pc' = [pc EXCEPT ![p] = "waitSSE"]
    /\ rpc' = [rpc EXCEPT ![p] = "run"]
    /\ stream' = [stream EXCEPT ![p] = resp.events]
    /\ UNCHANGED <<closed, panicked, deleteNotices, notificationHandler, op, request,
                   ctxDone, loaded, result, alone, observed, responseChan, chanClosed,
                   dispatched, bodyCloses, decoder, http, lock>>

\* the context of the stream task is cancelled: by the caller, by the closed
\* signal, or by the deferred cancel of a SendRequest that returned
StreamCtxDone(p) == ctxDone[p]

\* mutant: the notification is not handed to the handler
DispatchNothing(log, handler, n) == log

\* lines 318-322: the handler registered now is dispatched with the
\* notification; with no handler registered (handler "") it is dropped
Dispatch(log, handler, n) ==
    Append(log, [handler |-> handler, Method |-> n.Method, Params |-> n.Params])

\* mutant: an event that does not parse ends the stream task
readSSEStopsAtGarbage(p) ==
    /\ rpc[p] = "run"
    /\ IF \/ StreamCtxDone(p)
          \/ (stream[p] = <<>> /\ response[p].end # "open")
          \/ (stream[p] # <<>> /\ UnmarshalResponse(Head(stream[p])).err)
       THEN /\ rpc' = [rpc EXCEPT ![p] = "exit"]
            /\ chanClosed' = [chanClosed EXCEPT ![p] = TRUE]
            /\ BodyClose(p)
            /\ UNCHANGED <<stream, responseChan, dispatched>>
       ELSE /\ stream[p] # <<>>
            /\ LET text == Head(stream[p])
                   message == UnmarshalResponse(text)
               IN  IF message.ID = NullID
                   THEN /\ stream' = [stream EXCEPT ![p] = Tail(stream[p])]
                        /\ dispatched' = [dispatched EXCEPT ![p] =
                               IF UnmarshalNotification(text).err
                               THEN dispatched[p]
                               ELSE Dispatch(dispatched[p], notificationHandler,
                                             UnmarshalNotification(text))]
                        /\ UNCHANGED <<rpc, responseChan>>
                   ELSE /\ rpc' = [rpc EXCEPT ![p] = "send"]
                        /\ UNCHANGED <<stream, responseChan, dispatched>>
            /\ UNCHANGED <<chanClosed, bodyCloses>>
    /\ UNCHANGED <<shared, pc, op, request, ctxDone, loaded, response, result, alone,
                   observed, decoder, http, lock>>

\* lines 297-328 and 344-392: one turn of the loop of readSSE.  With the
\* context done, at end of stream or on a read error the task leaves the loop
\* and closes the completion channel; else it reads one event and hands it to
\* the callback of handleSSEResponse, which skips what does not parse,
\* dispatches an envelope without identifier as a notification, unless it
\* does not decode as one, and sends an envelope with an identifier to the
\* completion channel.
readSSE(p) ==
    /\ rpc[p] = "run"
    /\ IF StreamCtxDone(p) \/ (stream[p] = <<>> /\ response[p].end # "open")
       THEN /\ rpc' = [rpc EXCEPT ![p] = "exit"]
            /\ chanClosed' = [chanClosed EXCEPT ![p] = TRUE]
            /\ BodyClose(p)
            /\ UNCHANGED <<stream, responseChan, dispatched>>
       ELSE /\ stream[p] # <<>>
            /\ LET text == Head(stream[p])
                   message == UnmarshalResponse(text)
               IN  IF message.err
                   THEN /\ stream' = [stream EXCEPT ![p] = Tail(stream[p])]
                        /\ UNCHANGED <<rpc, responseChan, dispatched>>
                   ELSE IF message.ID = NullID
                   THEN /\ stream' = [stream EXCEPT ![p] = Tail(stream[p])]
                        /\ dispatched' = [dispatched EXCEPT ![p] =
                               IF UnmarshalNotification(text).err
                               THEN dispatched[p]
                               ELSE Dispatch(dispatched[p], notificationHandler,
                                             UnmarshalNotification(text))]
                        /\ UNCHANGED <<rpc, responseChan>>
                   ELSE /\ rpc' = [rpc EXCEPT ![p] = "send"]
                        /\ UNCHANGED <<stream, responseChan, dispatched>>
            /\ UNCHANGED <<chanClosed, bodyCloses>>
    /\ UNCHANGED <<shared, pc, op, request, ctxDone, loaded, response, result, alone,
                   observed, decoder, http, lock>>

\* mutant: the completion channel is not the call's own, and the message
\* goes to whichever call has a free slot
SendToAnyChan(p) ==
    /\ rpc[p] = "send"
    /\ \E q \in Procs :
           /\ Len(responseChan[q]) < 1
           /\ responseChan' = [responseChan EXCEPT ![q] =
                  Append(responseChan[q], ResponsePtr(UnmarshalResponse(Head(stream[p]))))]
    /\ stream' = [stream EXCEPT ![p] = Tail(stream[p])]
    /\ rpc' = [rpc EXCEPT ![p] = "run"]
    /\ UNCHANGED <<shared, pc, op, request, ctxDone, loaded, response, result, alone,
                   observed, chanClosed, dispatched, bodyCloses, decoder, http, lock>>

\* line 326: responseChan <- &message, possible while the single slot is free
SendToChan(p) ==
    /\ rpc[p] = "send"
    /\ Len(responseChan[p]) < 1
    /\ responseChan' = [responseChan EXCEPT ![p] =
           Append(responseChan[p], ResponsePtr(UnmarshalResponse(Head(stream[p]))))]
    /\ stream' = [stream EXCEPT ![p] = Tail(stream[p])]
    /\ rpc' = [rpc EXCEPT ![p] = "run"]
    /\ UNCHANGED <<shared, pc, op, request, ctxDone, loaded, response, result, alone,
                   observed, chanClosed, dispatched, bodyCloses, decoder, http, lock>>

\* mutant: the received value is returned without the nil check
ReceivedReturnUnchecked(received) == Return(received, "")

\* lines 332-336: what handleSSEResponse returns for a value received from
\* the completion channel (nil when the channel is closed and empty)
ReceivedReturn(received) ==
    IF received = NilResponse
    THEN Return(NilResponse, ErrNilResponse)
    ELSE Return(received, "")

\* lines 331-336: the select of handleSSEResponse receives from responseChan
Receive(p) ==
    /\ op[p] = "SendRequest"
    /\ pc[p] = "waitSSE"
    /\ IF responseChan[p] # <<>>
       THEN /\ Returns(p, ReceivedReturn(Head(responseChan[p])))
            /\ responseChan' = [responseChan EXCEPT ![p] = Tail(responseChan[p])]
       ELSE /\ chanClosed[p]
            /\ Returns(p, ReceivedReturn(NilResponse))
            /\ UNCHANGED responseChan
    /\ BodyClose(p)
    /\ UNCHANGED <<shared, op, request, loaded, response, alone, observed, rpc,
                   stream, chanClosed, dispatched, decoder, http, lock>>

\* lines 337-338: the select of handleSSEResponse takes ctx.Done()
WaitCanceled(p) ==
    /\ op[p] = "SendRequest"
    /\ pc[p] = "waitSSE"
    /\ ctxDone[p]
    /\ Returns(p, Return(NilResponse, ErrCanceled))
    /\ BodyClose(p)
    /\ UNCHANGED <<shared, op, request, loaded, response, alone, observed, task, decoder, http, lock>>

(***************************************************************************)
(* readSSE, line by line                                                   *)
(***************************************************************************)
\* strings.TrimRight(line, "\r\n"): the newline of the line is its end, the
\* carriage returns before it go as well
RECURSIVE TrimRight(_)
TrimRight(line) ==
    IF line.rest # <<>> /\ line.rest[Len(line.rest)] = "\r"
    THEN TrimRight(Line(line.prefix, SubSeq(line.rest, 1, Len(line.rest) - 1)))
    ELSE line

\* strings.TrimSpace
RECURSIVE TrimSpace(_)
TrimSpace(cs) ==
    IF cs # <<>> /\ Head(cs) \in {" ", "\r"} THEN TrimSpace(Tail(cs))
    ELSE IF cs # <<>> /\ cs[Len(cs)] \in {" ", "\r"}
    THEN TrimSpace(SubSeq(cs, 1, Len(cs) - 1))
    ELSE cs

\* line 374: line == ""
IsBlank(line) == line.prefix = "" /\ line.rest = <<>>

\* a call handler(event, data)
Emit(e, d) == [event |-> e, data |-> d]

\* mutant: the blank line resets the accumulators whether it emits or not
BoundaryAlwaysResets(e, d) ==
    [emit |-> IF e # <<>> /\ d # <<>> THEN <<Emit(e, d)>> ELSE <<>>,
     event |-> <<>>, data |-> <<>>]

\* lines 374-382: what a blank line emits, and the accumulators after it
Boundary(e, d) ==
    IF e # <<>> /\ d # <<>>
    THEN [emit |-> <<Emit(e, d)>>, event |-> <<>>, data |-> <<>>]
    ELSE [emit |-> <<>>, event |-> e, data |-> d]

\* mutant: every read error emits the pending event
ReadErrorAlwaysEmits(err, e, d) ==
    IF e # <<>> /\ d # <<>> THEN <<Emit(e, d)>> ELSE <<>>

\* lines 358-371: what readSSE emits when ReadString returns err
ReadError(err, e, d) ==
    IF err = "EOF" /\ e # <<>> /\ d # <<>> THEN <<Emit(e, d)>> ELSE <<>>

\* lines 344-348: readSSE is called with a reader and a context that is
\* not done; both accumulators are empty
readSSEBegin(r) ==
    /\ sseLoop = "none"
    /\ br' = r
    /\ event' = <<>>
    /\ data' = <<>>
    /\ emitted' = <<>>
    /\ sseLoop' = "loop"
    /\ sseCtxDone' = FALSE
    /\ UNCHANGED <<shared, pc, op, request, ctxDone, loaded, response, result, alone,
                   observed, task, bodyCloses, http, lock>>

\* the context of readSSE is cancelled
readSSECancel ==
    /\ sseLoop = "loop"
    /\ ~sseCtxDone
    /\ sseCtxDone' = TRUE
    /\ UNCHANGED <<shared, pc, op, request, ctxDone, loaded, response, result, alone,
                   observed, task, bodyCloses, http, lock, br, event, data, emitted, sseLoop>>

\* lines 350-390: one turn of the loop.  With the context done readSSE
\* returns; else ReadString returns the next line, or the characters after
\* the last newline with the error, and these characters are not looked at
readSSELine ==
    /\ sseLoop = "loop"
    /\ IF sseCtxDone
       THEN /\ sseLoop' = "ctx.Done"
            /\ UNCHANGED <<br, event, data, emitted>>
       ELSE IF br.next > Len(br.lines)
       THEN /\ emitted' = emitted \o ReadError(br.err, event, data)
            /\ sseLoop' = br.err
            /\ UNCHANGED <<br, event, data>>
       ELSE LET line == TrimRight(br.lines[br.next])
            IN  /\ br' = [br EXCEPT !.next = @ + 1]
                /\ IF IsBlank(line)
                   THEN /\ emitted' = emitted \o Boundary(event, data).emit
                        /\ event' = Boundary(event, data).event
                        /\ data' = Boundary(event, data).data
                   ELSE IF line.prefix = "event:"
                   THEN /\ event' = TrimSpace(line.rest)
                        /\ UNCHANGED <<data, emitted>>
                   ELSE IF line.prefix = "data:"
                   THEN /\ data' = TrimSpace(line.rest)
                        /\ UNCHANGED <<event, emitted>>
                   ELSE UNCHANGED <<event, data, emitted>>
                /\ UNCHANGED sseLoop
    /\ UNCHANGED <<shared, pc, op, request, ctxDone, loaded, response, result, alone,
                   observed, task, bodyCloses, http, lock, sseCtxDone>>

(***************************************************************************)
(* SendNotification                                                        *)
(***************************************************************************)
\* a JSONRPCNotification as built by a caller: it has no id
Notification(method, params) == JSONRPCRequest(NullID, method, params)

\* mutant: only 200 counts as success
NotificationReturnOnlyOK(status, body) ==
    IF status # StatusOK
    THEN Failure(ErrNotificationStatus, status, <<body>>)
    ELSE ReturnNil

\* lines 425-434: what SendNotification returns for the status of the reply
\* and the body read
NotificationReturn(status, body) ==
    IF status # StatusOK /\ status # StatusAccepted
    THEN Failure(ErrNotificationStatus, status, <<body>>)
    ELSE ReturnNil

\* lines 394-416: the call starts with a context that is cancelled or not;
\* the notification is marshalled, the token is loaded and the headers are
\* set.  No context is derived: c.closed is not watched.
SendNotification(p, n, cancelled) ==
    /\ Begin(p, "SendNotification")
    /\ request' = [request EXCEPT ![p] = n]
    /\ IF n.Params = Unserializable
       THEN /\ Returns(p, Return(NilResponse, ErrMarshalNotification))
            /\ loaded' = [loaded EXCEPT ![p] = NoToken]
       ELSE /\ loaded' = [loaded EXCEPT ![p] = sessionID]
            /\ pc' = [pc EXCEPT ![p] = "do"]
            /\ result' = [result EXCEPT ![p] = NoReturn]
            /\ ctxDone' = [ctxDone EXCEPT ![p] = cancelled]
    /\ UNCHANGED shared

\* the caller cancels the context it passed to SendNotification
NotificationCancel(p) ==
    /\ op[p] = "SendNotification"
    /\ pc[p] \in {"do", "roundtrip"}
    /\ ~ctxDone[p]
    /\ ctxDone' = [ctxDone EXCEPT ![p] = TRUE]
    /\ UNCHANGED <<shared, pc, op, request, loaded, response, result, alone, observed, sse>>

\* line 419: c.httpClient.Do(req) fails at once when the context is done,
\* and sends the notification otherwise
NotificationDo(p) ==
    /\ op[p] = "SendNotification"
    /\ pc[p] = "do"
    /\ IF ctxDone[p]
       THEN /\ Returns(p, Return(NilResponse, ErrSendCanceled))
            /\ UNCHANGED posted
       ELSE /\ pc' = [pc EXCEPT ![p] = "roundtrip"]
            /\ Post(p)
            /\ UNCHANGED <<result, ctxDone>>
    /\ UNCHANGED <<shared, op, request, loaded, response, alone, observed, task,
                   bodyCloses, decoder, headers, noticeDone, lock>>

\* lines 419-422: Do fails, for the network or for the context that is done
NotificationRoundTripFails(p) ==
    /\ op[p] = "SendNotification"
    /\ pc[p] = "roundtrip"
    /\ Returns(p, Return(NilResponse, IF ctxDone[p] THEN ErrSendCanceled ELSE ErrSend))
    /\ UNCHANGED <<shared, op, request, loaded, response, alone, observed, sse>>

\* lines 423-434: Do returned resp; only its status is looked at, and the
\* body is read for the error message
NotificationReply(p, resp) ==
    /\ op[p] = "SendNotification"
    /\ pc[p] = "roundtrip"
    /\ response' = [response EXCEPT ![p] = resp]
    /\ \E body \in ReadAll(ctxDone[p], resp.body) :
           Returns(p, NotificationReturn(resp.status, body))
    /\ BodyClose(p)
    /\ UNCHANGED <<shared, op, request, loaded, alone, observed, task, decoder, http, lock>>

\* the ways the goroutine of lines 136-153 ends: the notice was sent and
\* answered, it could not be created or sent, or its 5 seconds ran out
NoticeOutcomes == {"sent", "failed", "timeout"}

\* mutant: a notice that was not delivered puts its token back
CloseNoticeRestores(outcome) ==
    /\ Len(noticeDone) < Len(deleteNotices)
    /\ noticeDone' = Append(noticeDone, outcome)
    /\ sessionID' = IF outcome = "sent" THEN sessionID
                    ELSE deleteNotices[Len(noticeDone) + 1]
    /\ UNCHANGED <<closed, panicked, deleteNotices, notificationHandler, pc, op,
                   request, ctxDone, loaded, response, result, alone, observed, task,
                   bodyCloses, decoder, headers, posted, lock>>

\* lines 136-153: the goroutine started by Close ends; an error is printed
\* and nothing of the client is written
CloseNotice(outcome) ==
    /\ Len(noticeDone) < Len(deleteNotices)
    /\ noticeDone' = Append(noticeDone, outcome)
    /\ UNCHANGED <<shared, pc, op, request, ctxDone, loaded, response, result, alone,
                   observed, task, bodyCloses, decoder, headers, posted, lock>>

(***************************************************************************)
(* SetNotificationHandler                                                  *)
(***************************************************************************)
\* lines 437-441: the handler is swapped under the write lock
SetNotificationHandler(p, handler) ==
    /\ Begin(p, "SetNotificationHandler")
    /\ request' = [request EXCEPT ![p] = NoRequest]
    /\ loaded' = [loaded EXCEPT ![p] = NoToken]
    /\ notificationHandler' = handler
    /\ Returns(p, ReturnNil)
    /\ UNCHANGED <<sessionID, closed, panicked, deleteNotices>>

(***************************************************************************)
(* The handler swap in steps.  SetNotificationHandler above and the        *)
(* dispatch inside readSSE are the critical sections of c.notifyMu taken   *)
(* in one step each, which is what they are for a handler that returns     *)
(* without calling the transport.  Below the lock is explicit: Lock()      *)
(* announces the writer, which stops later readers, and waits until no     *)
(* reader holds the lock; the handler runs while its stream task holds the *)
(* read lock.                                                              *)
(***************************************************************************)
\* a handler that registers another handler when it is run
SwapHandler == "swap"

\* what SwapHandler passes to SetNotificationHandler
SwappedIn == "h1"

NotAtLock == [at |-> "none", handler |-> NoHandler]

\* the head of the stream of p decodes as a notification
IsNotice(p) ==
    /\ stream[p] # <<>>
    /\ ~UnmarshalResponse(Head(stream[p])).err
    /\ UnmarshalResponse(Head(stream[p])).ID = NullID
    /\ ~UnmarshalNotification(Head(stream[p])).err

\* line 438, first half of Lock(): the writer is announced
Lock(t, handler) ==
    /\ spc' = [spc EXCEPT ![t] = [at |-> "lock", handler |-> handler]]
    /\ notifyMu' = [notifyMu EXCEPT !.pending = @ \cup {t}]

\* line 437: a goroutine other than a stream task calls
\* SetNotificationHandler(handler)
SetNotificationHandlerCall(t, handler) ==
    /\ spc[t].at = "none"
    /\ rpc[t] \in {"none", "exit"}
    /\ Lock(t, handler)
    /\ UNCHANGED <<shared, pc, op, request, ctxDone, loaded, response, result, alone,
                   observed, task, bodyCloses, decoder, http, held>>

\* line 438, second half of Lock(): the write lock is taken when no
\* goroutine holds the lock
SetNotificationHandlerLock(t) ==
    /\ spc[t].at = "lock"
    /\ notifyMu.writer = 0
    /\ notifyMu.readers = {}
    /\ notifyMu' = [notifyMu EXCEPT !.writer = t, !.pending = @ \ {t}]
    /\ spc' = [spc EXCEPT ![t].at = "locked"]
    /\ UNCHANGED <<shared, pc, op, request, ctxDone, loaded, response, result, alone,
                   observed, task, bodyCloses, decoder, http, held>>

\* lines 439-441: the handler is stored, the lock is released and the call
\* returns; a call made by a handler returns into that handler, which
\* returns to its dispatch
SetNotificationHandlerStore(t) ==
    /\ spc[t].at = "locked"
    /\ notificationHandler' = spc[t].handler
    /\ notifyMu' = [notifyMu EXCEPT !.writer = 0]
    /\ spc' = [spc EXCEPT ![t] = NotAtLock]
    /\ rpc' = [rpc EXCEPT ![t] = IF @ = "handler" THEN "runlock" ELSE @]
    /\ UNCHANGED <<sessionID, closed, panicked, deleteNotices, pc, op, request, ctxDone,
                   loaded, response, result, alone, observed, stream, responseChan,
                   chanClosed, dispatched, bodyCloses, decoder, http, held>>

\* line 318: c.notifyMu.RLock() for an event that is a notification; a
\* reader waits while a writer holds the lock or is announced
DispatchRLock(p) ==
    /\ rpc[p] = "run"
    /\ ~StreamCtxDone(p)
    /\ IsNotice(p)
    /\ notifyMu.writer = 0
    /\ notifyMu.pending = {}
    /\ notifyMu' = [notifyMu EXCEPT !.readers = @ \cup {p}]
    /\ held' = [held EXCEPT ![p] = notificationHandler]
    /\ rpc' = [rpc EXCEPT ![p] = "rlocked"]
    /\ UNCHANGED <<shared, pc, op, request, ctxDone, loaded, response, result, alone,
                   observed, stream, responseChan, chanClosed, dispatched, bodyCloses,
                   decoder, http, spc>>

\* lines 319-321: the handler, if there is one, is called with the read lock
\* held.  SwapHandler calls SetNotificationHandler and is at its Lock();
\* any other handler returns.
DispatchCall(p) ==
    /\ rpc[p] = "rlocked"
    /\ dispatched' = [dispatched EXCEPT ![p] =
           Dispatch(dispatched[p], notificationHandler,
                    UnmarshalNotification(Head(stream[p])))]
    /\ IF notificationHandler = SwapHandler
       THEN /\ rpc' = [rpc EXCEPT ![p] = "handler"]
            /\ Lock(p, SwappedIn)
       ELSE /\ rpc' = [rpc EXCEPT ![p] = "runlock"]
            /\ UNCHANGED <<notifyMu, spc>>
    /\ UNCHANGED <<shared, pc, op, request, ctxDone, loaded, response, result, alone,
                   observed, stream, responseChan, chanClosed, bodyCloses, decoder,
                   http, held>>

\* line 322: c.notifyMu.RUnlock(), and the loop of readSSE goes on
DispatchRUnlock(p) ==
    /\ rpc[p] = "runlock"
    /\ notifyMu' = [notifyMu EXCEPT !.readers = @ \ {p}]
    /\ stream' = [stream EXCEPT ![p] = Tail(stream[p])]
    /\ rpc' = [rpc EXCEPT ![p] = "run"]
    /\ UNCHANGED <<shared, pc, op, request, ctxDone, loaded, response, result, alone,
                   observed, responseChan, chanClosed, dispatched, bodyCloses, decoder,
                   http, spc, held>>

\* a turn of the loop of readSSE that does not dispatch a notification
readSSEOther(p) ==
    /\ StreamCtxDone(p) \/ ~IsNotice(p)
    /\ readSSE(p)

(***************************************************************************)
(* The callers of SendRequest that make the request themselves.  An id is  *)
(* a string in the code and a number here: each format has a range of its  *)
(* own, and within a format the id is the one the clock readings give.     *)
(***************************************************************************)
\* part_002 line 100: ID: "1"
InitializeID == 1

\* fmt.Sprintf("%d", time.Now().UnixNano())
NanoID(now) == 10 + now

\* fmt.Sprintf("ping-%d", time.Now().UnixNano())
PingID(now) == 20 + now

\* ulid.MustNew(ulid.Timestamp(time.Now()), entropy).String(), the entropy
\* being a generator seeded with time.Now().UnixNano(): the timestamp and
\* the first draw of a generator with that seed
ULID(seed, stamp) == 100 + 10 * stamp + seed

\* lines 97-119: Initialize sends the initialize request with the id "1"
Initialize(p, cancelled) ==
    SendRequest(p, JSONRPCRequest(InitializeID, initializeMethod, "x"), cancelled)

\* lines 274-284: Request reads the clock for the seed and then for the
\* timestamp of the id
Request(p, method, seed, stamp, cancelled) ==
    /\ seed <= stamp
    /\ SendRequest(p, JSONRPCRequest(ULID(seed, stamp), method, "x"), cancelled)

\* lines 449-472: Ping sends a ping request with the id "ping-<now>"
Ping(p, now, cancelled) ==
    SendRequest(p, JSONRPCRequest(PingID(now), pingMethod, "x"), cancelled)

\* mutant: Ping looks at the error object of the response
PingReturnChecked(r) ==
    IF r.err # "" THEN "ping failed"
    ELSE IF r.resp[1].Error # "" THEN "ping failed"
    ELSE ""

\* lines 472-482: the error Ping returns for what SendRequest returned
PingReturn(r) == IF r.err # "" THEN "ping failed" ELSE ""

\* part_001 lines 293-302: HTTPClient.Request (and lines 331-338,
\* RawRequest) sends a request with the id "<now>"
HTTPClientRequest(p, method, now, cancelled) ==
    SendRequest(p, JSONRPCRequest(NanoID(now), method, "x"), cancelled)

\* the ([]byte, error) pair HTTPClient.Request returns; result <<>> is nil
ClientReturn(result_, err) == [result |-> result_, err |-> err]

\* mutant: HTTPClient.Request does not look at the error object
HTTPClientRequestReturnUnchecked(r) ==
    IF r.err # "" THEN ClientReturn(<<>>, "request failed")
    ELSE ClientReturn(<<r.resp[1].Result>>, "")

\* part_001 lines 302-312: what HTTPClient.Request returns for what
\* SendRequest returned
HTTPClientRequestReturn(r) ==
    IF r.err # "" THEN ClientReturn(<<>>, "request failed")
    ELSE IF r.resp[1].Error # "" THEN ClientReturn(<<>>, "error")
    ELSE ClientReturn(<<r.resp[1].Result>>, "")

(***************************************************************************)
(* GetSessionId                                                            *)
(***************************************************************************)
\* lines 443-445: the call loads the token and returns it
GetSessionIdCall(p) ==
    /\ Begin(p, "GetSessionId")
    /\ request' = [request EXCEPT ![p] = NoRequest]
    /\ loaded' = [loaded EXCEPT ![p] = GetSessionId]
    /\ Returns(p, ReturnNil)
    /\ UNCHANGED shared

(***************************************************************************)
(* Close                                                                   *)
(***************************************************************************)
\* line 122: the call starts
Close(p) ==
    /\ Begin(p, "Close")
    /\ request' = [request EXCEPT ![p] = NoRequest]
    /\ ctxDone' = [ctxDone EXCEPT ![p] = FALSE]
    /\ loaded' = [loaded EXCEPT ![p] = NoToken]
    /\ pc' = [pc EXCEPT ![p] = "check"]
    /\ result' = [result EXCEPT ![p] = NoReturn]
    /\ UNCHANGED shared

\* mutant: Close does not look at c.closed before closing it
CloseCheckMissing(p) ==
    /\ op[p] = "Close"
    /\ pc[p] = "check"
    /\ pc' = [pc EXCEPT ![p] = "close"]
    /\ UNCHANGED <<shared, op, request, ctxDone, loaded, response, result, alone,
                   observed, sse>>

\* lines 123-127: Close returns nil when c.closed is closed
CloseCheck(p) ==
    /\ op[p] = "Close"
    /\ pc[p] = "check"
    /\ IF closed
       THEN Returns(p, ReturnNil)
       ELSE /\ pc' = [pc EXCEPT ![p] = "close"]
            /\ UNCHANGED <<result, ctxDone>>
    /\ UNCHANGED <<shared, op, request, loaded, response, alone, observed, sse>>

\* line 129: close(c.closed); closing a closed channel panics
CloseSignal(p) ==
    /\ op[p] = "Close"
    /\ pc[p] = "close"
    /\ IF closed
       THEN /\ panicked' = TRUE
            /\ pc' = [pc EXCEPT ![p] = "panic"]
            /\ UNCHANGED closed
       ELSE /\ closed' = TRUE
            /\ pc' = [pc EXCEPT ![p] = "load"]
            /\ UNCHANGED panicked
    /\ UNCHANGED <<sessionID, deleteNotices, notificationHandler, op, request, ctxDone,
                   loaded, response, result, alone, observed, sse>>

\* lines 131-132: the token is loaded; Close returns nil when it is empty
CloseLoad(p) ==
    /\ op[p] = "Close"
    /\ pc[p] = "load"
    /\ loaded' = [loaded EXCEPT ![p] = sessionID]
    /\ IF sessionID = NoToken
       THEN Returns(p, ReturnNil)
       ELSE /\ pc' = [pc EXCEPT ![p] = "store"]
            /\ UNCHANGED <<result, ctxDone>>
    /\ UNCHANGED <<shared, op, request, response, alone, observed, sse>>

\* mutant: Close sends the notice and leaves the token in place
CloseStoreKeepsToken(p) ==
    /\ op[p] = "Close"
    /\ pc[p] = "store"
    /\ deleteNotices' = Append(deleteNotices, loaded[p])
    /\ Returns(p, ReturnNil)
    /\ UNCHANGED <<sessionID, closed, panicked, notificationHandler, op, request, loaded,
                   response, alone, observed, sse>>

\* lines 133-154: the empty token is stored, the goroutine that sends the
\* DELETE notice with the loaded token is started, and Close returns nil
CloseStore(p) ==
    /\ op[p] = "Close"
    /\ pc[p] = "store"
    /\ sessionID' = NoToken
    /\ deleteNotices' = Append(deleteNotices, loaded[p])
    /\ Returns(p, ReturnNil)
    /\ UNCHANGED <<closed, panicked, notificationHandler, op, request, loaded,
                   response, alone, observed, sse>>

(***************************************************************************)
(* The session specification: two of the callers initialize, send requests *)
(* and close the client, against a server that answers every exchange with *)
(* a single JSON reply or with 404, and sets the session header as it      *)
(* likes.                                                                  *)
(***************************************************************************)
Callers == {1, 2}

\* the server's single reply to a request: it echoes the request's
\* identifier and parameters as the result
Echo(req) == JSONResponse(req.ID, req.Params, "")

SessionRequests == {JSONRPCRequest(1, m, "x") : m \in {initializeMethod, otherMethod}}

SessionReplies(req) ==
    {HTTPResponse(s, t, "application/json", Echo(req), <<>>, "eof") :
        s \in {StatusOK, StatusNotFound}, t \in Tokens \cup {NoToken}}

Next ==
    \E p \in Callers :
        \/ \E req \in SessionRequests, c \in BOOLEAN : SendRequest(p, req, c)
        \/ Do(p)
        \/ Watch(p)
        \/ RoundTripCanceled(p)
        \/ \E resp \in SessionReplies(request[p]) : ErrorReply(p, resp)
        \/ \E resp \in SessionReplies(request[p]) : DirectReply(p, resp)
        \/ Close(p)
        \/ CloseCheck(p)
        \/ CloseSignal(p)
        \/ CloseLoad(p)
        \/ CloseStore(p)

Spec == Init /\ [][Next]_vars

(***************************************************************************)
(* The exchange specification: caller 1 sends requests, which the server   *)
(* answers with any status, media type and body or with an event stream,   *)
(* or which fail in the network; caller 2 swaps the notification handler   *)
(* and closes the client.  The server issues no session token here.        *)
(***************************************************************************)
Sender == 1
Controller == 2

Notice == JSONNotification("notifications/progress", "half")

\* the bodies a server may send in answer to req
Bodies(req) ==
    {Echo(req), JSONResponse(NullID, "pong", ""), JSONResponse(req.ID, "", "failed"),
     JSONResponse(NullID, "", "failed"), Garbage}

\* the events a server may put on the stream that answers req
Events(req) == {Notice, Garbage, JSONResponse(req.ID, "r", ""), JSONResponse(req.ID + 1, "r", "")}

RECURSIVE SeqsUpTo(_, _)
SeqsUpTo(S, n) ==
    IF n = 0 THEN {<<>>}
    ELSE LET shorter == SeqsUpTo(S, n - 1)
         IN  shorter \cup {Append(q, e) : q \in shorter, e \in S}

ExchangeRequests ==
    {JSONRPCRequest(1, m, x) :
        m \in {initializeMethod, pingMethod, otherMethod}, x \in {"x", Unserializable}}

DirectReplies(req) ==
    {HTTPResponse(s, NoToken, c, b, <<>>, "eof") :
        s \in {StatusOK, StatusAccepted, StatusNotFound, StatusInternalServerError},
        c \in {"application/json", "text/plain"},
        b \in Bodies(req)}

\* the server streams its answers to tools/list
StreamReplies(req) ==
    IF req.Method = otherMethod
    THEN {HTTPResponse(StatusOK, NoToken, "text/event-stream", Garbage, ev, end) :
             ev \in SeqsUpTo(Events(req), MaxStream), end \in {"eof", "open"}}
    ELSE {}

NextExchange ==
    \/ \E req \in ExchangeRequests, c \in BOOLEAN : SendRequest(Sender, req, c)
    \/ Do(Sender)
    \/ Watch(Sender)
    \/ CallerCancel(Sender)
    \/ RoundTripFails(Sender)
    \/ RoundTripCanceled(Sender)
    \/ \E resp \in DirectReplies(request[Sender]) : ErrorReply(Sender, resp)
    \/ \E resp \in DirectReplies(request[Sender]) : DirectReply(Sender, resp)
    \/ \E resp \in StreamReplies(request[Sender]) : StreamReply(Sender, resp)
    \/ readSSE(Sender)
    \/ SendToChan(Sender)
    \/ Receive(Sender)
    \/ WaitCanceled(Sender)
    \/ \E h \in Handlers \cup {NoHandler} : SetNotificationHandler(Controller, h)
    \/ Close(Controller)
    \/ CloseCheck(Controller)
    \/ CloseSignal(Controller)
    \/ CloseLoad(Controller)

SpecExchange == Init /\ [][NextExchange]_vars

(***************************************************************************)
(* The echo specification: every caller sends requests with an identifier  *)
(* and a payload of its own, concurrently, to a server that echoes each    *)
(* request, as a single JSON reply or as the one event of a stream.        *)
(***************************************************************************)
Payload(p) == ToString(p)

EchoRequests(p) == {JSONRPCRequest(p, pingMethod, Payload(p))}

EchoReplies(req) ==
    {HTTPResponse(s, NoToken, "application/json", Echo(req), <<>>, "eof") :
        s \in {StatusOK, StatusAccepted}}
    \cup {HTTPResponse(StatusOK, NoToken, "text/event-stream", Garbage, <<Echo(req)>>, "eof")}

NextEcho ==
    \E p \in Procs :
        \/ \E req \in EchoRequests(p) : SendRequest(p, req, FALSE)
        \/ Do(p)
        \/ \E resp \in EchoReplies(request[p]) : DirectReply(p, resp)
        \/ \E resp \in EchoReplies(request[p]) : StreamReply(p, resp)
        \/ readSSE(p)
        \/ SendToChan(p)
        \/ Receive(p)

SpecEcho == Init /\ [][NextEcho]_vars

(***************************************************************************)
(* The shutdown specification: the exchange specification without any      *)
(* cancellation by the caller, with the fairness of the Go scheduler: a     *)
(* goroutine that can run does run, and a call blocked in Do or in the      *)
(* select of handleSSEResponse returns once its context is done.           *)
(***************************************************************************)
NextShutdown ==
    \/ \E req \in ExchangeRequests : SendRequest(Sender, req, FALSE)
    \/ Do(Sender)
    \/ Watch(Sender)
    \/ RoundTripFails(Sender)
    \/ RoundTripCanceled(Sender)
    \/ \E resp \in DirectReplies(request[Sender]) : ErrorReply(Sender, resp)
    \/ \E resp \in DirectReplies(request[Sender]) : DirectReply(Sender, resp)
    \/ \E resp \in StreamReplies(request[Sender]) : StreamReply(Sender, resp)
    \/ readSSE(Sender)
    \/ SendToChan(Sender)
    \/ Receive(Sender)
    \/ WaitCanceled(Sender)
    \/ Close(Controller)
    \/ CloseCheck(Controller)
    \/ CloseSignal(Controller)
    \/ CloseLoad(Controller)

SpecShutdown ==
    /\ Init
    /\ [][NextShutdown]_vars
    /\ WF_vars(Do(Sender))
    /\ WF_vars(Watch(Sender))
    /\ WF_vars(RoundTripCanceled(Sender))
    /\ WF_vars(WaitCanceled(Sender))

(***************************************************************************)
(* The stream end specification: the shutdown specification with the       *)
(* stream task and the receiving select scheduled fairly as well.          *)
(***************************************************************************)
SpecStreamEnd ==
    /\ Init
    /\ [][NextShutdown]_vars
    /\ WF_vars(Do(Sender))
    /\ WF_vars(Watch(Sender))
    /\ WF_vars(RoundTripCanceled(Sender))
    /\ WF_vars(WaitCanceled(Sender))
    /\ WF_vars(readSSE(Sender))
    /\ WF_vars(SendToChan(Sender))
    /\ WF_vars(Receive(Sender))

(***************************************************************************)
(* The notification specification: two of the callers send notifications,  *)
(* which the server answers with any status, media type and body, also     *)
(* with a stream that carries a notification, and register a handler.      *)
(***************************************************************************)
Notifications ==
    {Notification("notifications/initialized", x) : x \in {"x", Unserializable}}

NotificationReplies ==
    {HTTPResponse(s, NoToken, t, b, <<Notice>>, "eof") :
        s \in {StatusOK, StatusAccepted, StatusNotFound, StatusInternalServerError},
        t \in {"application/json", "text/event-stream"},
        b \in {Garbage, Notice, JSONResponse(1, "r", "")}}

NextNotification ==
    \E p \in Callers :
        \/ \E n \in Notifications, c \in BOOLEAN : SendNotification(p, n, c)
        \/ NotificationCancel(p)
        \/ NotificationDo(p)
        \/ NotificationRoundTripFails(p)
        \/ \E resp \in NotificationReplies : NotificationReply(p, resp)
        \/ \E h \in Handlers : SetNotificationHandler(p, h)

SpecNotification == Init /\ [][NextNotification]_vars

(***************************************************************************)
(* The client specification: two of the callers use Initialize, Request,   *)
(* Ping and HTTPClient.Request, under any reading of the clock, against a  *)
(* server that answers with the echo of the request or with an error       *)
(* envelope, with 200, 404 or 500.                                         *)
(***************************************************************************)
ClientReplies(req) ==
    {HTTPResponse(s, NoToken, "application/json", b, <<>>, "eof") :
        s \in {StatusOK, StatusNotFound, StatusInternalServerError},
        b \in {Echo(req), JSONResponse(req.ID, "", "failed")}}

NextClient ==
    \E p \in Callers :
        \/ \E c \in BOOLEAN : Initialize(p, c)
        \/ \E seed, stamp \in Clock, c \in BOOLEAN : Request(p, otherMethod, seed, stamp, c)
        \/ \E now \in Clock, c \in BOOLEAN : Ping(p, now, c)
        \/ \E now \in Clock, c \in BOOLEAN : HTTPClientRequest(p, otherMethod, now, c)
        \/ Do(p)
        \/ RoundTripFails(p)
        \/ \E resp \in ClientReplies(request[p]) : ErrorReply(p, resp)
        \/ \E resp \in ClientReplies(request[p]) : DirectReply(p, resp)

SpecClient == Init /\ [][NextClient]_vars

(***************************************************************************)
(* The token specification: caller 1 initializes, pings and notifies, and  *)
(* may cancel; the server answers with 200 or 404 and a session header or  *)
(* none, with any media type and body, or with a stream of notifications,  *)
(* by-name or by-position, answers without identifier and the answer;      *)
(* caller 2 swaps the notification handler.                                *)
(***************************************************************************)
ArrayNotice == JSONNotification("notifications/progress", ArrayParams)

TokenRequests == {JSONRPCRequest(1, m, "x") : m \in {initializeMethod, pingMethod}}

TokenEvents(req) == {JSONResponse(NullID, "pong", ""), ArrayNotice, Echo(req)}

TokenReplies(req) ==
    {HTTPResponse(s, t, c, b, <<>>, "eof") :
        s \in {StatusOK, StatusNotFound}, t \in {"A", NoToken},
        c \in {"application/json", "text/plain"},
        b \in {Echo(req), JSONResponse(NullID, "pong", ""), Garbage}}
    \cup {HTTPResponse(StatusOK, t, "text/event-stream", Garbage, ev, "eof") :
             t \in {"A", NoToken}, ev \in SeqsUpTo(TokenEvents(req), MaxStream)}

NextToken ==
    \/ \E req \in TokenRequests : SendRequest(Sender, req, FALSE)
    \/ Do(Sender)
    \/ CallerCancel(Sender)
    \/ \E resp \in TokenReplies(request[Sender]) : ErrorReply(Sender, resp)
    \/ \E resp \in TokenReplies(request[Sender]) : DirectReply(Sender, resp)
    \/ \E resp \in TokenReplies(request[Sender]) : StreamReply(Sender, resp)
    \/ readSSE(Sender)
    \/ SendToChan(Sender)
    \/ Receive(Sender)
    \/ WaitCanceled(Sender)
    \/ SendNotification(Sender, Notification("notifications/initialized", "x"), FALSE)
    \/ NotificationDo(Sender)
    \/ \E resp \in TokenReplies(request[Sender]) : NotificationReply(Sender, resp)
    \/ \E h \in Handlers \cup {NoHandler} : SetNotificationHandler(Controller, h)

SpecToken == Init /\ [][NextToken]_vars

(***************************************************************************)
(* The notification shutdown specification: caller 1 sends notifications   *)
(* and never cancels, the server answers or stays silent, caller 2 closes  *)
(* the client; with the fairness of the Go scheduler: a goroutine that can *)
(* run does run.                                                           *)
(***************************************************************************)
NextNotificationShutdown ==
    \/ \E n \in Notifications : SendNotification(Sender, n, FALSE)
    \/ NotificationDo(Sender)
    \/ NotificationRoundTripFails(Sender)
    \/ \E resp \in NotificationReplies : NotificationReply(Sender, resp)
    \/ Close(Controller)
    \/ CloseCheck(Controller)
    \/ CloseSignal(Controller)
    \/ CloseLoad(Controller)

SpecNotificationShutdown ==
    /\ Init
    /\ [][NextNotificationShutdown]_vars
    /\ WF_vars(NotificationDo(Sender))
    /\ WF_vars(CloseCheck(Controller))
    /\ WF_vars(CloseSignal(Controller))
    /\ WF_vars(CloseLoad(Controller))

(***************************************************************************)
(* The decoder specification: readSSE reads any stream of up to MaxLines   *)
(* lines, which ends with end of file, with or without characters after    *)
(* the last newline, or with another error, and its context is cancelled   *)
(* at any moment.                                                          *)
(***************************************************************************)
MaxLines == 5

BlankLine == Line("", <<"\r">>)
EventLine == Line("event:", <<" ", "a">>)
DataLine == Line("data:", <<" ", "x", "\r">>)

\* the lines a server may send: the three above and a comment
Lines == {BlankLine, EventLine, DataLine, Line("", <<":">>)}

Readers ==
    {Reader(ls, <<>>, e) : ls \in SeqsUpTo(Lines, MaxLines), e \in {"EOF", "reset"}}
    \cup {Reader(ls, DataLine, "EOF") : ls \in SeqsUpTo(Lines, MaxLines)}

NextDecoder ==
    \/ sseLoop = "none" /\ \E r \in Readers : readSSEBegin(r)
    \/ readSSECancel
    \/ readSSELine

SpecDecoder == Init /\ [][NextDecoder]_vars

(***************************************************************************)
(* The frame specification: caller 1 sends requests and notifications to   *)
(* the server of the session specification, which sets the session header  *)
(* of every reply as it likes; caller 2 closes the client.                 *)
(***************************************************************************)
NextFrame ==
    \/ \E req \in SessionRequests : SendRequest(Sender, req, FALSE)
    \/ Do(Sender)
    \/ Watch(Sender)
    \/ RoundTripCanceled(Sender)
    \/ \E resp \in SessionReplies(request[Sender]) : ErrorReply(Sender, resp)
    \/ \E resp \in SessionReplies(request[Sender]) : DirectReply(Sender, resp)
    \/ SendNotification(Sender, Notification("notifications/initialized", "x"), FALSE)
    \/ NotificationDo(Sender)
    \/ \E resp \in SessionReplies(request[Sender]) : NotificationReply(Sender, resp)
    \/ Close(Controller)
    \/ CloseCheck(Controller)
    \/ CloseSignal(Controller)
    \/ CloseLoad(Controller)
    \/ CloseStore(Controller)

SpecFrame == Init /\ [][NextFrame]_vars

(***************************************************************************)
(* The headers specification: the client is constructed with any of the    *)
(* static header options; caller 1 sends requests and notifications under  *)
(* a context that is cancelled before, during or never; the network fails  *)
(* or the server answers 200, 404 or 500 with or without a token; caller 2 *)
(* closes the client.                                                      *)
(***************************************************************************)
Header(k, v) == [x \in {k} |-> v]

\* WithHTTPHeaders options: none, a header of the application, and the session
\* header in its canonical and in its lower-case spelling
StaticHeaders ==
    {NoHeaders, Header("X-Api-Key", "k"), Header("x-api-key", "k"),
     Header("Mcp-Session-Id", "S"), Header("mcp-session-id", "S")}

InitOptions == \E options \in StaticHeaders : NewStreamableHTTP(options)

HeaderReplies(req) ==
    {HTTPResponse(s, t, "application/json", Echo(req), <<>>, "eof") :
        s \in {StatusOK, StatusNotFound, StatusInternalServerError},
        t \in {"A", NoToken}}

NextHeaders ==
    \/ \E req \in SessionRequests, c \in BOOLEAN : SendRequest(Sender, req, c)
    \/ Do(Sender)
    \/ Watch(Sender)
    \/ CallerCancel(Sender)
    \/ RoundTripFails(Sender)
    \/ RoundTripCanceled(Sender)
    \/ \E resp \in HeaderReplies(request[Sender]) : ErrorReply(Sender, resp)
    \/ \E resp \in HeaderReplies(request[Sender]) : DirectReply(Sender, resp)
    \/ \E c \in BOOLEAN :
           SendNotification(Sender, Notification("notifications/initialized", "x"), c)
    \/ NotificationCancel(Sender)
    \/ NotificationDo(Sender)
    \/ NotificationRoundTripFails(Sender)
    \/ \E resp \in HeaderReplies(request[Sender]) : NotificationReply(Sender, resp)
    \/ Close(Controller)
    \/ CloseCheck(Controller)
    \/ CloseSignal(Controller)
    \/ CloseLoad(Controller)
    \/ CloseStore(Controller)

SpecHeaders == InitOptions /\ [][NextHeaders]_vars

(***************************************************************************)
(* The termination notice specification: caller 1 initializes and sends    *)
(* requests, the server gives a token or not; caller 2 closes the client,  *)
(* and the notice is delivered, fails or times out at any later moment.    *)
(***************************************************************************)
NextNotice ==
    \/ \E req \in SessionRequests : SendRequest(Sender, req, FALSE)
    \/ Do(Sender)
    \/ Watch(Sender)
    \/ RoundTripCanceled(Sender)
    \/ \E resp \in SessionReplies(request[Sender]) : ErrorReply(Sender, resp)
    \/ \E resp \in SessionReplies(request[Sender]) : DirectReply(Sender, resp)
    \/ Close(Controller)
    \/ CloseCheck(Controller)
    \/ CloseSignal(Controller)
    \/ CloseLoad(Controller)
    \/ CloseStore(Controller)
    \/ \E outcome \in NoticeOutcomes : CloseNotice(outcome)

SpecNotice == Init /\ [][NextNotice]_vars

(***************************************************************************)
(* The handler swap specification: caller 1 sends requests that are        *)
(* answered with streams of notifications and replies; caller 2 calls      *)
(* SetNotificationHandler with a handler that returns, with one that       *)
(* registers another handler, or with nil.  Every goroutine that can take  *)
(* a step of the dispatch or of the swap does take it.                     *)
(***************************************************************************)
HandlerOptions == {"h1", SwapHandler, NoHandler}

HandlerRequests == {JSONRPCRequest(1, otherMethod, "x")}

HandlerReplies(req) ==
    {HTTPResponse(StatusOK, NoToken, "text/event-stream", Garbage, ev, "eof") :
        ev \in SeqsUpTo({Notice, Echo(req)}, MaxStream)}

NextHandler ==
    \/ \E req \in HandlerRequests : SendRequest(Sender, req, FALSE)
    \/ Do(Sender)
    \/ \E resp \in HandlerReplies(request[Sender]) : StreamReply(Sender, resp)
    \/ readSSEOther(Sender)
    \/ SendToChan(Sender)
    \/ Receive(Sender)
    \/ DispatchRLock(Sender)
    \/ DispatchCall(Sender)
    \/ DispatchRUnlock(Sender)
    \/ \E h \in HandlerOptions : SetNotificationHandlerCall(Controller, h)
    \/ \E t \in {Sender, Controller} : SetNotificationHandlerLock(t)
    \/ \E t \in {Sender, Controller} : SetNotificationHandlerStore(t)

SpecHandler ==
    /\ Init
    /\ [][NextHandler]_vars
    /\ WF_vars(DispatchRLock(Sender))
    /\ WF_vars(DispatchCall(Sender))
    /\ WF_vars(DispatchRUnlock(Sender))
    /\ \A t \in {Sender, Controller} :
           /\ WF_vars(SetNotificationHandlerLock(t))
           /\ WF_vars(SetNotificationHandlerStore(t))

(***************************************************************************)
(* The stalled exchange specification: caller 1 sends requests to which    *)
(* the server may never reply, or reply with a stream that stays open and  *)
(* carries notifications only.  Caller 2 sends requests and notifications, *)
(* reads the token and closes the client; the server answers caller 2, and *)
(* the goroutines of caller 2 run when they can.  Nothing is assumed about *)
(* the steps of caller 1.                                                  *)
(***************************************************************************)
StallRequests == {JSONRPCRequest(1, otherMethod, "x")}

StalledReplies ==
    {HTTPResponse(StatusOK, NoToken, "text/event-stream", Garbage, ev, "open") :
        ev \in SeqsUpTo({Notice}, MaxStream)}

PromptReplies(req) ==
    {HTTPResponse(s, NoToken, "application/json", Echo(req), <<>>, "eof") :
        s \in {StatusOK, StatusInternalServerError}}
    \cup {HTTPResponse(StatusOK, NoToken, "text/event-stream", Garbage, ev, "eof") :
             ev \in {<<>>, <<Echo(req)>>, <<Notice, Echo(req)>>}}

Answer(p) ==
    \/ \E resp \in PromptReplies(request[p]) : ErrorReply(p, resp)
    \/ \E resp \in PromptReplies(request[p]) : DirectReply(p, resp)
    \/ \E resp \in PromptReplies(request[p]) : StreamReply(p, resp)
    \/ \E resp \in PromptReplies(request[p]) : NotificationReply(p, resp)

NextStall ==
    \/ \E req \in StallRequests : SendRequest(Sender, req, FALSE)
    \/ Do(Sender)
    \/ Watch(Sender)
    \/ RoundTripCanceled(Sender)
    \/ \E resp \in StalledReplies : StreamReply(Sender, resp)
    \/ readSSE(Sender)
    \/ WaitCanceled(Sender)
    \/ Receive(Sender)
    \/ \E req \in StallRequests : SendRequest(Controller, req, FALSE)
    \/ Do(Controller)
    \/ Watch(Controller)
    \/ SendNotification(Controller, Notification("notifications/initialized", "x"), FALSE)
    \/ NotificationDo(Controller)
    \/ Answer(Controller)
    \/ readSSE(Controller)
    \/ SendToChan(Controller)
    \/ Receive(Controller)
    \/ GetSessionIdCall(Controller)
    \/ Close(Controller)
    \/ CloseCheck(Controller)
    \/ CloseSignal(Controller)
    \/ CloseLoad(Controller)

SpecStall ==
    /\ Init
    /\ [][NextStall]_vars
    /\ WF_vars(Do(Controller))
    /\ WF_vars(NotificationDo(Controller))
    /\ WF_vars(Answer(Controller))
    /\ WF_vars(readSSE(Controller))
    /\ WF_vars(SendToChan(Controller))
    /\ WF_vars(Receive(Controller))
    /\ WF_vars(CloseCheck(Controller))
    /\ WF_vars(CloseSignal(Controller))
    /\ WF_vars(CloseLoad(Controller))

(***************************************************************************)
(* The media type specification: caller 1 pings and lists; the server      *)
(* answers 200 or 202 with any Content-Type header, with parameters, in    *)
(* upper case or missing, and any body or stream.                          *)
(***************************************************************************)
ContentTypes ==
    {"application/json", "application/json; charset=utf-8", "text/event-stream",
     "Text/Event-Stream", "text/plain", ""}

MediaRequests == {JSONRPCRequest(1, m, "x") : m \in {pingMethod, otherMethod}}

MediaReplies(req) ==
    {HTTPResponse(s, NoToken, c, b, ev, "eof") :
        s \in {StatusOK, StatusAccepted}, c \in ContentTypes,
        b \in Bodies(req), ev \in SeqsUpTo({Notice, Echo(req)}, MaxStream)}

NextMedia ==
    \/ \E req \in MediaRequests : SendRequest(Sender, req, FALSE)
    \/ Do(Sender)
    \/ \E resp \in MediaReplies(request[Sender]) : DirectReply(Sender, resp)
    \/ \E resp \in MediaReplies(request[Sender]) : StreamReply(Sender, resp)
    \/ readSSE(Sender)
    \/ SendToChan(Sender)
    \/ Receive(Sender)

SpecMedia == Init /\ [][NextMedia]_vars

(***************************************************************************)
(* Claims                                                                  *)
(***************************************************************************)
\* the SendRequest of caller p has returned
Returned(p) == op[p] = "SendRequest" /\ pc[p] = "done"

\* this step is the one in which the exchange of caller p handles its reply
HandlesReply(p) ==
    /\ op[p] = "SendRequest"
    /\ pc[p] = "roundtrip"
    /\ pc'[p] = "done"
    /\ response'[p] # NoResponse

\* C1: after a successful initialize exchange that no other call overlaps,
\* whatever token was held before, GetSessionId() returns the session header
\* value of the reply, and the empty value when the reply carried none.
C1_SessionRoundTrip ==
    \A p \in Procs :
        (/\ Returned(p)
         /\ alone[p]
         /\ request[p].Method = initializeMethod
         /\ ~IsErrorStatus(response[p].status)
         /\ result[p].err = "")
        => GetSessionId = response[p].sid

\* C2: a SendRequest for a non-initialize method that no other call overlaps
\* and that the server answers with 404 returns the re-initialize error and
\* no response, and GetSessionId() then returns the empty value.
C2_SessionExpiry ==
    \A p \in Procs :
        (/\ Returned(p)
         /\ alone[p]
         /\ request[p].Method # initializeMethod
         /\ response[p].status = StatusNotFound)
        => /\ result[p] = Return(NilResponse, ErrReinit)
           /\ GetSessionId = NoToken

\* C2 witness: such an exchange had loaded a token, and has returned
C2_Witness ==
    \E p \in Procs :
        /\ Returned(p)
        /\ alone[p]
        /\ request[p].Method # initializeMethod
        /\ response[p].status = StatusNotFound
        /\ loaded[p] \in Tokens
        /\ GetSessionId = NoToken

\* C3: the 404 reply to an exchange that attached token T clears the token
\* only if the token still equals T at that moment; any other token found
\* then (one stored by a concurrent initialize exchange) is left in place.
C3_ClearOnlyOwnToken ==
    [][\A p \in Procs :
          (HandlesReply(p) /\ response'[p].status = StatusNotFound)
          => IF sessionID = loaded[p]
             THEN sessionID' = NoToken
             ELSE sessionID' = sessionID]_vars

\* C3 witness: an exchange that attached one token got 404 while the token
\* was another one, which is still in place
C3_Witness ==
    \E p \in Procs :
        /\ Returned(p)
        /\ response[p].status = StatusNotFound
        /\ loaded[p] \in Tokens
        /\ observed[p] \in Tokens \ {loaded[p]}
        /\ sessionID = observed[p]

\* C4: a Close() that finds the closed signal closed (the second of two
\* calls in sequence) changes no state of the client, issues no DELETE
\* notice, does not panic and returns nil.
C4_IdempotentClose ==
    [][\A p \in Procs :
          (op[p] = "Close" /\ pc[p] = "check" /\ pc'[p] # "check" /\ closed)
          => /\ pc'[p] = "done"
             /\ result'[p] = ReturnNil
             /\ UNCHANGED <<sessionID, closed, panicked, deleteNotices,
                            notificationHandler>>]_vars

\* C4 witness: a Close() that no other call overlaps has returned nil and
\* left a token in place that was stored after the first Close()
C4_Witness ==
    \E p \in Procs :
        /\ op[p] = "Close"
        /\ pc[p] = "done"
        /\ alone[p]
        /\ result[p] = ReturnNil
        /\ closed
        /\ sessionID \in Tokens
        /\ Len(deleteNotices) = 1
        /\ ~panicked

\* the SendRequest of caller p is in flight: it waits for the HTTP response
\* or for the terminal response of its stream
InFlight(p) == op[p] = "SendRequest" /\ pc[p] \in {"roundtrip", "waitSSE"}

\* C5: once Close() has closed the closed signal, every SendRequest in
\* flight (waiting for the HTTP response or for the terminal response of a
\* stream) eventually returns, with no cancellation by its caller.
C5_CloseUnblocks ==
    \A p \in Procs : (closed /\ InFlight(p)) ~> (pc[p] = "done")

\* C5 witness: a SendRequest that waited on a stream which stays open and
\* carries no event has returned the cancellation error after Close()
C5_Witness ==
    \E p \in Procs :
        /\ Returned(p)
        /\ closed
        /\ response[p].ctype = "text/event-stream"
        /\ response[p].events = <<>>
        /\ response[p].end = "open"
        /\ result[p] = Return(NilResponse, ErrCanceled)

\* C6: a SendRequest whose context is done before the request is sent
\* returns a cancellation error and no response, and neither its start nor
\* its return changes the token.
C6_AlreadyCancelled ==
    [][\A p \in Procs :
          /\ (op'[p] = "SendRequest" /\ pc[p] # "do" /\ pc'[p] = "do")
             => sessionID' = sessionID
          /\ (op[p] = "SendRequest" /\ pc[p] = "do" /\ ctxDone[p] /\ pc'[p] # "do")
             => /\ pc'[p] = "done"
                /\ IsCanceled(result'[p].err)
                /\ result'[p].resp = NilResponse
                /\ response'[p] = NoResponse
                /\ sessionID' = sessionID]_vars

\* C6 witness: with the client open and a token held, a SendRequest called
\* with a cancelled context has returned the cancellation error
C6_Witness ==
    \E p \in Procs :
        /\ Returned(p)
        /\ ~closed
        /\ response[p] = NoResponse
        /\ result[p] = Return(NilResponse, ErrSendCanceled)
        /\ loaded[p] \in Tokens
        /\ sessionID = loaded[p]

\* the stream of C7: a notification, then the response with the request's id
CorrelatedStream(req) == <<Notice, JSONResponse(req.ID, "r", "")>>

\* C7: a SendRequest answered by a stream that carries a notification and
\* then a response with the request's id returns the content of the
\* response event, unless its context is done, and then it returns an
\* error; before it returns the response, the notification has been
\* dispatched exactly once, with its method and params, to the handler
\* registered then, and nothing is dispatched after the return, until the
\* caller's next call.
C7_StreamingCorrelation ==
    [][\A p \in Procs :
          (/\ op[p] = "SendRequest"
           /\ response[p].ctype = "text/event-stream"
           /\ response[p].events = CorrelatedStream(request[p]))
          => /\ (pc[p] = "waitSSE" /\ pc'[p] = "done")
                => \/ /\ ctxDone[p]
                      /\ result'[p].resp = NilResponse
                      /\ result'[p].err \in {ErrCanceled, ErrNilResponse}
                   \/ /\ result'[p] = Return(<< [ID |-> request[p].ID, Result |-> "r",
                                                Error |-> ""] >>, "")
                      /\ Len(dispatched[p]) = 1
                      /\ dispatched[p][1].Method = "notifications/progress"
                      /\ dispatched[p][1].Params = "half"
             /\ (pc[p] = "done" /\ response'[p] = response[p])
                => dispatched'[p] = dispatched[p]]_vars

\* C7 witness: such a SendRequest has returned the response event's content
\* and the registered handler has been invoked
C7_Witness ==
    \E p \in Procs :
        /\ Returned(p)
        /\ response[p].ctype = "text/event-stream"
        /\ response[p].events = CorrelatedStream(request[p])
        /\ result[p].err = ""
        /\ result[p].resp # NilResponse
        /\ dispatched[p] = << [handler |-> "h1", Method |-> "notifications/progress",
                               Params |-> "half"] >>

\* C8: with every caller sending concurrently a request with an identifier
\* and a payload of its own to an echo server, every SendRequest returns,
\* without error, the response that echoes its own identifier and payload.
C8_NoCrossTalk ==
    \A p \in Procs :
        Returned(p)
        => /\ result[p] = Return(<< [ID |-> p, Result |-> Payload(p), Error |-> ""] >>, "")
           /\ request[p].ID = p

\* C8 witness: all callers have returned from calls that overlapped, one
\* of them answered by a stream and one by a single JSON reply
C8_Witness ==
    /\ \A p \in Procs : Returned(p) /\ ~alone[p] /\ result[p].err = ""
    /\ \E p \in Procs : response[p].ctype = "text/event-stream"
    /\ \E p \in Procs : response[p].ctype = "application/json"

\* C9: every return of SendRequest carries either a response and the nil
\* error, or no response and an error.
C9_ExactlyOneOutcome ==
    \A p \in Procs :
        Returned(p)
        => /\ result[p] # NoReturn
           /\ (result[p].resp # NilResponse) <=> (result[p].err = "")

\* C9 witness: a SendRequest whose stream ended without a response with an
\* id has returned the nil-response error
C9_Witness ==
    \E p \in Procs :
        /\ Returned(p)
        /\ response[p].ctype = "text/event-stream"
        /\ response[p].end = "eof"
        /\ result[p] = Return(NilResponse, ErrNilResponse)

\* resp is a single JSON success reply that echoes req
IsEchoReply(resp, req) ==
    /\ ~IsErrorStatus(resp.status)
    /\ resp.ctype = "application/json"
    /\ resp.body = Echo(req)

\* C10: for every method, a SendRequest answered by a single JSON success
\* reply that echoes the request returns a response whose id is the
\* request's id, unless the context was done while the body was read.
C10_EchoedIdentifier ==
    [][\A p \in Procs :
          (HandlesReply(p) /\ IsEchoReply(response'[p], request[p]))
          => \/ /\ result'[p].err = ""
                /\ Len(result'[p].resp) = 1
                /\ result'[p].resp[1].ID = request[p].ID
             \/ /\ ctxDone[p]
                /\ result'[p] = Failure(ErrDecode, 0, <<Garbage>>)]_vars

\* C10 witness: such a SendRequest, for the ping method, has returned the
\* response with its id
C10_Witness ==
    \E p \in Procs :
        /\ Returned(p)
        /\ request[p].Method = pingMethod
        /\ IsEchoReply(response[p], request[p])
        /\ result[p].err = ""
        /\ result[p].resp # NilResponse
        /\ result[p].resp[1].ID = request[p].ID

\* resp is a success reply with a single JSON body that parses
IsJSONReply(resp) ==
    /\ ~IsErrorStatus(resp.status)
    /\ resp.ctype = "application/json"
    /\ resp.body.ok

\* the response SendRequest hands out for the body it decoded
Decoded(body) == ResponsePtr(UnmarshalResponse(body))

\* C11 as stated: every success reply whose envelope carries an error object
\* is returned as a response with that error and the nil error, unless the
\* context was done while the body was read.
C11_ErrorIsData ==
    [][\A p \in Procs :
          (/\ HandlesReply(p)
           /\ ~ctxDone[p]
           /\ IsJSONReply(response'[p])
           /\ response'[p].body.error # "")
          => result'[p] = Return(Decoded(response'[p].body), "")]_vars

\* C11: a success reply whose envelope carries an error object and is a
\* valid one, that is, has an id or answers ping, is returned as a response
\* with that error and the nil error, unless the context was done while the
\* body was read.
C11_ErrorIsDataWithID ==
    [][\A p \in Procs :
          (/\ HandlesReply(p)
           /\ ~ctxDone[p]
           /\ IsJSONReply(response'[p])
           /\ response'[p].body.error # ""
           /\ (response'[p].body.id # NullID \/ request[p].Method = pingMethod))
          => /\ result'[p] = Return(Decoded(response'[p].body), "")
             /\ result'[p].resp[1].Error = response'[p].body.error]_vars

\* C11 witness: a SendRequest answered by an error envelope with its id has
\* returned it as a response
C11_Witness ==
    \E p \in Procs :
        /\ Returned(p)
        /\ IsJSONReply(response[p])
        /\ response[p].body = JSONResponse(request[p].ID, "", "failed")
        /\ result[p].err = ""
        /\ result[p].resp = << [ID |-> request[p].ID, Result |-> "", Error |-> "failed"] >>

\* this step handles a reply with an error status other than 404, read
\* under a context that is not done
HandlesOtherError(p) ==
    /\ HandlesReply(p)
    /\ ~ctxDone[p]
    /\ IsErrorStatus(response'[p].status)
    /\ response'[p].status # StatusNotFound

\* C12: on an error status other than 404, SendRequest returns a response
\* with a populated error field and the nil error when the body decodes as a
\* response, and otherwise an error that embeds the status code and the raw
\* body; the token is unchanged.
C12_OtherErrorStatus ==
    [][\A p \in Procs :
          HandlesOtherError(p)
          => /\ sessionID' = sessionID
             /\ IF response'[p].body.ok
                THEN /\ result'[p] = Return(Decoded(response'[p].body), "")
                     /\ result'[p].resp[1].Error # ""
                ELSE result'[p] =
                         Failure(ErrStatus, response'[p].status, <<response'[p].body>>)]_vars

\* C16: on the single JSON path a decoded response with a null id is
\* returned as a response only for the ping method; for every other method
\* SendRequest returns no response and an error that includes the raw
\* payload.
C16_NullIdentifier ==
    [][\A p \in Procs :
          (/\ HandlesReply(p)
           /\ IsJSONReply(response'[p])
           /\ response'[p].body.id = NullID)
          => \/ /\ request[p].Method = pingMethod
                /\ result'[p] = Return(Decoded(response'[p].body), "")
             \/ /\ request[p].Method # pingMethod
                /\ result'[p] = Failure(ErrNoID, 0, <<response'[p].body>>)
             \/ /\ ctxDone[p]
                /\ result'[p] = Failure(ErrDecode, 0, <<Garbage>>)]_vars

\* C16 witness: a SendRequest for a method other than ping answered with a
\* null id has returned the error with the payload, and one for ping has
\* returned the response
C16_Witness ==
    \E p \in Procs :
        /\ Returned(p)
        /\ IsJSONReply(response[p])
        /\ response[p].body = JSONResponse(NullID, "pong", "")
        /\ request[p].Method = otherMethod
        /\ result[p] = Failure(ErrNoID, 0, <<JSONResponse(NullID, "pong", "")>>)

\* this step is the one in which the Close() of caller p returns
CloseReturns(p) == op[p] = "Close" /\ pc[p] # "done" /\ pc'[p] = "done"

\* what a Close() that runs with the token t does to the token and to the
\* notices
TerminatesSession(t) ==
    /\ sessionID' = NoToken
    /\ deleteNotices' = IF t # NoToken THEN Append(deleteNotices, t) ELSE deleteNotices

StoresHeaderOfInitialize(p) ==
    /\ op[p] = "SendRequest"
    /\ pc[p] = "roundtrip"
    /\ request[p].Method = initializeMethod
    /\ ~IsErrorStatus(response'[p].status)
    /\ response'[p].sid = sessionID'

\* C14: the token starts empty, is always one string, the empty one or a
\* session header value, and every step that changes it either empties it
\* or stores the session header of the reply to an initialize exchange.
C14_TokenInvariant ==
    /\ sessionID = NoToken
    /\ [](sessionID \in Tokens \cup {NoToken})
    /\ [][sessionID' # sessionID
          => \/ sessionID' = NoToken
             \/ \E p \in Procs : StoresHeaderOfInitialize(p)]_vars

\* C14 witness: the token is the session header of the reply to the second
\* of two initialize exchanges, which replaced that of the first
C14_Witness ==
    \E p, q \in Procs :
        /\ Returned(p) /\ request[p].Method = initializeMethod
        /\ Returned(q) /\ request[q].Method = initializeMethod
        /\ response[q].sid = "A" /\ result[q].err = ""
        /\ response[p].sid = "B" /\ result[p].err = ""
        /\ sessionID = "B"

\* C20: under every interleaving of concurrent Close() calls the closed
\* signal is closed once, without a panic, and at most one DELETE notice is
\* issued.
C20_ConcurrentClose == ~panicked /\ Len(deleteNotices) <= 1

\* this step is the one in which the SendNotification of caller p gets its
\* reply
NotificationAnswered(p) ==
    op[p] = "SendNotification" /\ pc[p] = "roundtrip" /\ response'[p] # NoResponse

\* C17: SendNotification returns nil for a reply with status 200 or 202,
\* and for nothing else; for any other status it returns an error that
\* embeds the status code and the body read; it never returns a response,
\* puts none on a completion channel and never has a notification
\* dispatched to the handler.
C17_NotifyOutcome ==
    /\ [](\A p \in Procs :
             op[p] = "SendNotification"
             => /\ result[p].resp = NilResponse
                /\ responseChan[p] = <<>>
                /\ dispatched[p] = <<>>
                /\ (pc[p] = "done" /\ result[p].err = "")
                   => response[p].status \in {StatusOK, StatusAccepted})
    /\ [][\A p \in Procs :
             NotificationAnswered(p)
             => /\ pc'[p] = "done"
                /\ IF response'[p].status \in {StatusOK, StatusAccepted}
                   THEN result'[p] = ReturnNil
                   ELSE \E body \in ReadAll(ctxDone[p], response'[p].body) :
                            result'[p] = Failure(ErrNotificationStatus,
                                                 response'[p].status, <<body>>)]_vars

\* C17 witness: with a handler registered, a SendNotification answered 202
\* with a stream that carries a notification has returned nil, and one
\* answered 500 has returned the error with the status and the body
C17_Witness ==
    \E p, q \in Procs :
        /\ op[p] = "SendNotification" /\ pc[p] = "done"
        /\ op[q] = "SendNotification" /\ pc[q] = "done"
        /\ notificationHandler = "h1"
        /\ response[p].status = StatusAccepted
        /\ response[p].ctype = "text/event-stream"
        /\ result[p] = ReturnNil
        /\ response[q].status = StatusInternalServerError
        /\ result[q] = Failure(ErrNotificationStatus, StatusInternalServerError,
                               <<response[q].body>>)

\* C15: no two requests that are in flight at the same time carry the same
\* id, for the ids made by Initialize, Request, Ping and HTTPClient.Request
\* under any reading of the clock.
C15_UniqueIdentifiers ==
    \A p, q \in Procs :
        (p # q /\ InFlight(p) /\ InFlight(q)) => request[p].ID # request[q].ID

\* the call of caller p was made by HTTPClient.Request, and has returned
ClientRequestReturned(p) ==
    Returned(p) /\ request[p].ID \in {NanoID(now) : now \in Clock}

\* C18: HTTPClient.Request returns an error and no result when the exchange
\* fails or the response carries an error object, and the result of the
\* response with the nil error when the response carries none.
C18_ClientRequestOutcome ==
    \A p \in Procs :
        ClientRequestReturned(p)
        => LET r == result[p]
               out == HTTPClientRequestReturn(r)
           IN IF r.err # "" \/ r.resp[1].Error # ""
              THEN out.err # "" /\ out.result = <<>>
              ELSE out = ClientReturn(<<r.resp[1].Result>>, "")

\* C18 witness: two calls of HTTPClient.Request have returned, one with a
\* response that carries an error object and one with the echo
C18_Witness ==
    \E p, q \in Procs :
        /\ ClientRequestReturned(p)
        /\ result[p].err = ""
        /\ result[p].resp[1].Error = "failed"
        /\ HTTPClientRequestReturn(result[p]) = ClientReturn(<<>>, "error")
        /\ ClientRequestReturned(q)
        /\ HTTPClientRequestReturn(result[q]) = ClientReturn(<<"x">>, "")

\* the call of caller p was made by Ping, and has returned
PingReturned(p) ==
    Returned(p) /\ request[p].ID \in {PingID(now) : now \in Clock}

\* C19: Ping returns nil only when the ping exchange completed with a
\* response that reports success: it returns an error for a transport
\* failure, a cancellation, a 404 and a ping response with an error object.
C19_PingOutcome ==
    \A p \in Procs :
        PingReturned(p)
        => (PingReturn(result[p]) = ""
            <=> (result[p].err = "" /\ result[p].resp[1].Error = ""))

\* C21: on the streaming path SendRequest returns an event as the response
\* only if the id of the event is the id of the request.
C21_StreamIdentifierMatch ==
    \A p \in Procs :
        (/\ Returned(p)
         /\ response[p].ctype = "text/event-stream"
         /\ result[p].resp # NilResponse)
        => result[p].resp[1].ID = request[p].ID

\* C22: the background stream task does not stay blocked on the completion
\* channel: once SendRequest has returned, and nothing receives from the
\* channel any more, the task is not waiting to send to a full channel.
C22_StreamTaskNotBlocked ==
    \A p \in Procs :
        Returned(p) => ~(rpc[p] = "send" /\ Len(responseChan[p]) = 1)

\* no Close() is running
NoCloseRunning == \A p \in Procs : op[p] = "Close" => pc[p] = "done"

\* C26: once Close() has closed the signal and returned, the token is
\* empty, whatever exchange was in flight or is started afterwards.
C26_TokenEmptyAfterClose ==
    (closed /\ ~panicked /\ NoCloseRunning) => sessionID = NoToken

\* C23: a SendRequest of initialize that returns an error leaves the token
\* as it was before the exchange (here: as the call loaded it, no other
\* call storing a token meanwhile).
C23_TokenOnlyOnSuccess ==
    (/\ Returned(Sender)
     /\ request[Sender].Method = initializeMethod
     /\ result[Sender].err # "")
    => sessionID = loaded[Sender]

\* the SendNotification of caller p was answered 404, and has returned
NotificationExpired(p) ==
    /\ op[p] = "SendNotification"
    /\ pc[p] = "done"
    /\ response[p].status = StatusNotFound

\* C24: a SendNotification answered 404 fails with the re-initialize error,
\* and GetSessionId() is empty afterwards.
C24_NotifyExpiry ==
    \A p \in Procs :
        NotificationExpired(p) => result[p].err = ErrReinit /\ GetSessionId = NoToken

\* C25: once the closed signal is closed, a SendNotification that waits for
\* its HTTP response returns, though the caller never cancels.
C25_NotifyObservesShutdown ==
    (closed /\ op[Sender] = "SendNotification" /\ pc[Sender] = "roundtrip")
        ~> (pc[Sender] = "done")

\* the stream task of caller p reads an event that parses and has no id
ReadsEventWithoutID(p) ==
    /\ rpc[p] = "run"
    /\ rpc'[p] # "exit"
    /\ stream'[p] # stream[p]
    /\ ~UnmarshalResponse(Head(stream[p])).err
    /\ UnmarshalResponse(Head(stream[p])).ID = NullID

\* the notifications of log that were handed to a handler
Handed(log) == SelectSeq(log, LAMBDA d : d.handler # NoHandler)

\* C27: an event without id is not sent to the completion channel, whatever
\* the method of the request, and SendRequest keeps waiting; it is handed to
\* the notification handler registered at that moment, or dropped when none
\* is registered.
C27_EventWithoutID ==
    [][\A p \in Procs :
           ReadsEventWithoutID(p)
           => /\ responseChan'[p] = responseChan[p]
              /\ pc'[p] = pc[p]
              /\ result'[p] = result[p]
              /\ Handed(dispatched'[p]) =
                     IF notificationHandler = NoHandler
                     THEN Handed(dispatched[p])
                     ELSE Append(Handed(dispatched[p]),
                              [handler |-> notificationHandler,
                               Method |-> Head(stream[p]).method,
                               Params |-> Head(stream[p]).params])]_vars

\* the exchange of caller p was answered with a stream
Streamed(p) ==
    /\ op[p] = "SendRequest"
    /\ ~IsErrorStatus(response[p].status)
    /\ response[p].ctype = "text/event-stream"

\* C30: the body of a streamed reply is closed exactly once: never a second
\* time, and once when SendRequest has returned and the stream task is gone.
C30_StreamClosedOnce ==
    \A p \in Procs :
        Streamed(p)
        => /\ bodyCloses[p] <= 1
           /\ (pc[p] = "done" /\ rpc[p] = "exit") => bodyCloses[p] = 1

\* readSSE reads a blank line in this step
ReadsBlankLine ==
    /\ sseLoop = "loop"
    /\ ~sseCtxDone
    /\ br.next <= Len(br.lines)
    /\ br'.next = br.next + 1
    /\ IsBlank(TrimRight(br.lines[br.next]))

\* C28: at a blank line readSSE calls the handler with the pending pair and
\* empties both accumulators if both are non-empty, and else calls nothing
\* and leaves both accumulators as they were.
C28_BoundaryRule ==
    [][ReadsBlankLine
       => IF event # <<>> /\ data # <<>>
          THEN /\ emitted' = Append(emitted, Emit(event, data))
               /\ event' = <<>>
               /\ data' = <<>>
          ELSE /\ emitted' = emitted
               /\ event' = event
               /\ data' = data]_vars

\* a blank line has found the name empty and has left the data as they
\* were, and the next blank line has emitted these data with the name read
\* meanwhile, and has emptied both accumulators
C28_Witness ==
    /\ sseLoop = "loop"
    /\ br.lines = <<DataLine, BlankLine, EventLine, BlankLine>>
    /\ br.next = 5
    /\ emitted = <<Emit(<<"a">>, <<"x">>)>>
    /\ event = <<>>
    /\ data = <<>>

\* readSSE returns in this step
Exits == sseLoop = "loop" /\ sseLoop' # "loop"

\* the stream is a run of frames, each a name, data and a blank line, and
\* the last frame may be cut short
Framed(lines) ==
    \A i \in 1..Len(lines) :
        lines[i] = CASE i % 3 = 1 -> EventLine
                     [] i % 3 = 2 -> DataLine
                     [] OTHER -> BlankLine

\* C29: when ReadString returns end of file readSSE calls the handler once
\* with the pending pair, if both accumulators are non-empty, and returns;
\* when it returns for another read error or for its context it calls
\* nothing; it calls nothing after it returned.  So at end of file every
\* frame of a framed stream whose name and data were read has been handed
\* to the handler once.
C29_ExitRule ==
    [][/\ Exits
          => emitted' = IF sseLoop' = "EOF" /\ event # <<>> /\ data # <<>>
                        THEN Append(emitted, Emit(event, data))
                        ELSE emitted
       /\ (Exits /\ sseLoop' = "EOF" /\ Framed(br.lines))
          => emitted' = [k \in 1..((Len(br.lines) + 1) \div 3) |-> Emit(<<"a">>, <<"x">>)]
       /\ sseLoop \notin {"none", "loop"} => emitted' = emitted]_vars

\* readSSE has returned at end of file; a blank line had emitted the first
\* pair, and the end of file has emitted the second, which was pending
C29_Witness ==
    /\ sseLoop = "EOF"
    /\ br.lines = <<EventLine, DataLine, BlankLine, EventLine, DataLine>>
    /\ br.partial = <<>>
    /\ emitted = <<Emit(<<"a">>, <<"x">>), Emit(<<"a">>, <<"x">>)>>
    /\ event = <<"a">>
    /\ data = <<"x">>

\* C31: a SendRequest on the streaming path whose context is done, and whose
\* completion channel has received no response, returns the cancellation
\* error and no response.
C31_CancelledStream ==
    [][\A p \in Procs :
           (/\ op[p] = "SendRequest"
            /\ pc[p] = "waitSSE"
            /\ pc'[p] = "done"
            /\ ctxDone[p]
            /\ responseChan[p] = <<>>)
           => result'[p] = Return(NilResponse, ErrCanceled)]_vars

\* the stream task of caller p reads an event that does not parse
ReadsGarbage(p) ==
    /\ rpc[p] = "run"
    /\ ~StreamCtxDone(p)
    /\ stream[p] # <<>>
    /\ UnmarshalResponse(Head(stream[p])).err
    /\ <<rpc, stream, chanClosed>> # <<rpc', stream', chanClosed'>>

\* C33: an event that does not parse is skipped and nothing else changes:
\* the call goes on waiting and the task goes on reading.  So a response
\* with the request's id that comes after it is returned, unless the
\* context is done, and a notification that comes after it is dispatched.
C33_SkipsUnparseable ==
    [][\A p \in Procs :
           /\ ReadsGarbage(p)
              => /\ stream'[p] = Tail(stream[p])
                 /\ rpc'[p] = "run"
                 /\ ~chanClosed'[p]
                 /\ <<pc, result, responseChan, dispatched>>
                        = <<pc', result', responseChan', dispatched'>>
           /\ (/\ op[p] = "SendRequest"
               /\ response[p].events = <<Garbage, JSONResponse(request[p].ID, "r", "")>>
               /\ pc[p] = "waitSSE"
               /\ pc'[p] = "done")
              => \/ ctxDone[p] /\ result'[p].resp = NilResponse /\ result'[p].err # ""
                 \/ result'[p] = Return(<< [ID |-> request[p].ID, Result |-> "r",
                                           Error |-> ""] >>, "")
           /\ (/\ op[p] = "SendRequest"
               /\ response[p].events = <<Garbage, Notice>>
               /\ rpc[p] = "run"
               /\ stream[p] = <<Notice>>
               /\ stream'[p] = <<>>)
              => /\ Len(dispatched'[p]) = 1
                 /\ dispatched'[p][1].handler = notificationHandler
                 /\ dispatched'[p][1].Method = "notifications/progress"]_vars

\* C33 witness: the response that came after an event that does not parse
\* has been returned
C33_Witness ==
    \E p \in Procs :
        /\ Returned(p)
        /\ response[p].ctype = "text/event-stream"
        /\ response[p].events = <<Garbage, JSONResponse(request[p].ID, "r", "")>>
        /\ result[p] = Return(<< [ID |-> request[p].ID, Result |-> "r", Error |-> ""] >>, "")

\* no event of the stream carries an identifier
NoIdentifier(events) ==
    \A i \in 1..Len(events) :
        UnmarshalResponse(events[i]).err \/ UnmarshalResponse(events[i]).ID = NullID

\* the SendRequest of caller p waits on a stream that ends and carries no
\* identifier
WaitsOnEndingStream(p) ==
    /\ op[p] = "SendRequest"
    /\ pc[p] = "waitSSE"
    /\ response[p].end # "open"
    /\ NoIdentifier(response[p].events)

\* C32: a SendRequest that waits on a stream which ends without an event
\* that carries an identifier returns, and what it returns is an error
\* and no response.
C32_StreamEndsWithoutResponse ==
    /\ WaitsOnEndingStream(Sender) ~> pc[Sender] = "done"
    /\ [][(WaitsOnEndingStream(Sender) /\ pc'[Sender] = "done")
          => (result'[Sender].resp = NilResponse /\ result'[Sender].err # "")]_vars

\* C32 witness: the stream carried a notification and ended, nothing was
\* cancelled, and the call has returned the error of the closed channel
C32_Witness ==
    /\ Returned(Sender)
    /\ ~closed
    /\ response[Sender].ctype = "text/event-stream"
    /\ response[Sender].events = <<Notice>>
    /\ response[Sender].end = "eof"
    /\ stream[Sender] = <<>>
    /\ result[Sender] = Return(NilResponse, ErrNilResponse)

\* caller p takes this step
Steps(p) == pc'[p] # pc[p] \/ op'[p] # op[p]

\* this step is the handling, by the SendRequest of caller p, of a reply
\* with a success status
HandlesSuccess(p) ==
    /\ op[p] = "SendRequest"
    /\ pc[p] = "roundtrip"
    /\ pc'[p] # "roundtrip"
    /\ response'[p] # NoResponse
    /\ ~IsErrorStatus(response'[p].status)

\* C34: the handling of a success reply to a request that is not initialize,
\* and every step of a SendNotification, leave the token as it is, whatever
\* session header the reply has; a step that changes the token is the
\* handling of a success reply to initialize, which stores its header, the
\* handling of a 404 reply to a SendRequest, or the store of Close, which
\* empty it.
C34_TokenFrame ==
    [][\A p \in Procs :
           /\ (HandlesSuccess(p) /\ request[p].Method # initializeMethod)
              => sessionID' = sessionID
           /\ (op[p] = "SendNotification" /\ Steps(p)) => sessionID' = sessionID
           /\ (Steps(p) /\ sessionID' # sessionID)
              => \/ /\ HandlesSuccess(p)
                    /\ request[p].Method = initializeMethod
                    /\ sessionID' = response'[p].sid
                 \/ /\ op[p] = "SendRequest"
                    /\ pc[p] = "roundtrip"
                    /\ response'[p].status = StatusNotFound
                    /\ sessionID' = NoToken
                 \/ /\ op[p] = "Close"
                    /\ pc[p] = "store"
                    /\ sessionID' = NoToken]_vars

\* C34 witness: the token is A, and a notification has been answered 200
\* with the session header B
C34_Witness ==
    /\ sessionID = "A"
    /\ op[Sender] = "SendNotification"
    /\ pc[Sender] = "done"
    /\ response[Sender].status = StatusOK
    /\ response[Sender].sid = "B"
    /\ result[Sender] = ReturnNil

\* the media type of the Content-Type header h is application/json
IsJSONType(h) == h \in {"application/json", "application/json; charset=utf-8"}

\* the media type of the Content-Type header h is text/event-stream
IsStreamType(h) == h \in {"text/event-stream", "Text/Event-Stream"}

\* C39: what SendRequest does with a success reply depends on the media
\* type alone: for application/json it returns the one envelope that the
\* body decodes to, or a decoding error; for text/event-stream it starts the
\* stream task and waits; for any other or no media type it returns the
\* content type error and no response.
C39_MediaTypeDecides ==
    [][\A p \in Procs :
           HandlesSuccess(p)
           => LET h == response'[p].ctype
                  body == response'[p].body
              IN  /\ IsJSONType(h)
                     => /\ pc'[p] = "done"
                        /\ rpc'[p] = "none"
                        /\ \/ result'[p] = Return(Decoded(body), "")
                           \/ /\ result'[p].resp = NilResponse
                              /\ result'[p].err \in {ErrDecode, ErrNoID}
                  /\ IsStreamType(h)
                     => /\ pc'[p] = "waitSSE"
                        /\ rpc'[p] = "run"
                        /\ stream'[p] = response'[p].events
                        /\ result'[p] = result[p]
                  /\ (~IsJSONType(h) /\ ~IsStreamType(h))
                     => /\ pc'[p] = "done"
                        /\ rpc'[p] = "none"
                        /\ result'[p] = Return(NilResponse, ErrContentType)]_vars

\* C39 witness: a reply with the media type application/json and a charset
\* parameter was decoded, though its body came with events as well
C39_Witness ==
    /\ Returned(Sender)
    /\ response[Sender].ctype = "application/json; charset=utf-8"
    /\ response[Sender].status = StatusAccepted
    /\ response[Sender].events = <<Notice>>
    /\ result[Sender] = Return(Decoded(Echo(request[Sender])), "")
    /\ dispatched[Sender] = <<>>
(***************************************************************************)
(* C37: there is no automatic retry: a call of SendRequest or of           *)
(* SendNotification issues at most one HTTP exchange, on every path:       *)
(* transport failure, 404, error replies and cancellation included.        *)
(***************************************************************************)
C37_NoRetry == \A p \in Procs : Len(posted[p]) <= 1

\* a request that was sent came back with a transport failure, and a
\* notification that was sent was answered 404
C37_Witness ==
    \/ /\ op[Sender] = "SendRequest" /\ pc[Sender] = "done"
       /\ Len(posted[Sender]) = 1
       /\ result[Sender] = Return(NilResponse, ErrSend)
    \/ /\ op[Sender] = "SendNotification" /\ pc[Sender] = "done"
       /\ Len(posted[Sender]) = 1
       /\ response[Sender] # NoResponse
       /\ response[Sender].status = StatusNotFound

(***************************************************************************)
(* C38: every request and notification that is sent carries the session    *)
(* header if and only if the token loaded is not empty, with exactly that  *)
(* value, unless a static header has the same name: the static headers     *)
(* are set after it, and the last write wins.                              *)
(***************************************************************************)
HasStatic(name) == \E k \in DOMAIN headers : CanonicalMIMEHeaderKey(k) = name

StaticValue(name) ==
    headers[CHOOSE k \in DOMAIN headers : CanonicalMIMEHeaderKey(k) = name]

C38_SessionHeader ==
    \A p \in Procs : \A i \in 1..Len(posted[p]) :
        LET h == posted[p][i]
        IN  /\ \A k \in DOMAIN headers :
                   /\ CanonicalMIMEHeaderKey(k) \in DOMAIN h
                   /\ h[CanonicalMIMEHeaderKey(k)] = headers[k]
            /\ ~HasStatic("Mcp-Session-Id") =>
                   IF loaded[p] # NoToken
                   THEN "Mcp-Session-Id" \in DOMAIN h /\ h["Mcp-Session-Id"] = loaded[p]
                   ELSE "Mcp-Session-Id" \notin DOMAIN h

\* a request was sent with the token A loaded and a static session header S
\* in lower case: it carries S
C38_Witness ==
    /\ headers = Header("mcp-session-id", "S")
    /\ loaded[Sender] = "A"
    /\ Len(posted[Sender]) = 1
    /\ posted[Sender][1]["Mcp-Session-Id"] = "S"

(***************************************************************************)
(* C40: Close returns without waiting for the termination notice and       *)
(* always returns nil: when Close returns, the notice it started has not   *)
(* ended, and the end of a notice, delivered, failed or timed out, changes *)
(* no state of the client and no result of any call.                       *)
(***************************************************************************)
NoticeEnds == noticeDone' # noticeDone

C40_CloseIgnoresNotice ==
    [][(\A p \in Procs :
           CloseReturns(p) =>
               /\ result'[p] = ReturnNil
               /\ (pc[p] = "store" => Len(noticeDone') < Len(deleteNotices')))
       /\ (NoticeEnds =>
              UNCHANGED <<sessionID, closed, panicked, notificationHandler, headers,
                          pc, op, result, response>>)]_vars

\* Close has returned nil, and its notice has failed after that
C40_Witness ==
    /\ op[Controller] = "Close" /\ pc[Controller] = "done"
    /\ result[Controller] = ReturnNil
    /\ deleteNotices = <<"A">>
    /\ noticeDone = <<"failed">>

(***************************************************************************)
(* C35: the handler swap is race-free and never deadlocks: a notification  *)
(* is delivered to the handler that was registered when its dispatch       *)
(* started, and SetNotificationHandler always eventually returns, also     *)
(* when it is called from inside a running notification handler.           *)
(***************************************************************************)
\* the first part: the handler called is the one registered when the read
\* lock was taken
HandlerAtStart ==
    [][\A p \in Procs :
           (rpc[p] = "rlocked" /\ rpc'[p] # "rlocked") =>
               dispatched'[p][Len(dispatched'[p])].handler = held[p]]_vars

\* C35, the last part: every call of SetNotificationHandler returns, the
\* call made by a running handler included
C35_SetHandlerReturns ==
    \A t \in Callers : (spc[t].at # "none") ~> (spc[t].at = "none")

(***************************************************************************)
(* C36: concurrent exchanges never block each other: whatever caller 1     *)
(* does, stalled for ever on a server that does not reply or on a stream   *)
(* that stays open included, every call of SendRequest, SendNotification,  *)
(* GetSessionId and Close that caller 2 has started completes.             *)
(***************************************************************************)
Stalled(p) ==
    /\ op[p] = "SendRequest"
    /\ \/ pc[p] = "roundtrip"
       \/ pc[p] = "waitSSE" /\ stream[p] = <<>> /\ response[p].end = "open"

C36_StalledSendBlocksNoCall ==
    (pc[Controller] \notin {"idle", "done"}) ~> (pc[Controller] = "done")

\* while caller 1 is stalled on an open stream, caller 2 has had its reply
C36_Witness ==
    /\ Stalled(Sender)
    /\ pc[Sender] = "waitSSE"
    /\ op[Controller] = "SendRequest"
    /\ pc[Controller] = "done"
    /\ alone[Controller] = FALSE
    /\ result[Controller].err = ""

====
